---- MODULE Spec2Model ----
(***************************************************************************)
(* Beetroot: reconciliation of Nightscout glucose entries, segmentation    *)
(* into glucose-status ranges and sticker selection for the rendered       *)
(* graph (src/utils/nightscout.rs, src/utils/graph/stickers.rs,            *)
(* src/utils/graph/types.rs, src/utils/graph/mod.rs).                      *)
(*                                                                         *)
(* Conventions of the model:                                               *)
(*  - Option<T> is a sequence: None is <<>>, Some(x) is <<x>>.             *)
(*  - f32 glucose values are fixed-point integers in thousandths of a      *)
(*    mg/dL (100.04 mg/dL is 100040).                                      *)
(*  - instants are integers in milliseconds since the epoch.               *)
(*  - a date string is a record [ok, ms]: whether it parses as RFC 3339    *)
(*    and, when it does, the instant it denotes.                           *)
(***************************************************************************)
EXTENDS Integers, Sequences, FiniteSets, TLC

VARIABLES
    entries,            \* the &[Entry] handed to filter_and_clean_entries / draw_graph
    hours,              \* the window length, u16
    now,                \* the reading of chrono::Utc::now()
    result,             \* Result<Vec<Entry>, NightscoutError> of filter_and_clean_entries
    result2,            \* the result of reconciling result's list once more
    status_ranges,      \* Vec<(GlucoseStatus, usize, usize)> of identify_status_ranges
    filtered_ranges,    \* the ranges left by filter_ranges_by_duration
    thresholds,         \* <<target_low, target_high>> handed to identify_status_ranges
    stickers,           \* the &[Sticker] available to the render
    stickers_to_place,  \* Vec<(&Sticker, Option<(usize, usize)>)> being selected
    place_idx,          \* how many of stickers_to_place the drawing loop has taken
    occupied_areas,     \* Vec<(f32, f32, f32)>: centre and radius of each placed sticker
    pc,                 \* position in the pipeline
    treatments,         \* the &[Treatment] handed to draw_graph
    profile,            \* profile.store.get(default_profile_name): None or Some(units)
    points_px,          \* Vec<(f32, f32)>: the plotted point of each reconciled entry
    placements,         \* what the drawing loop did with each of stickers_to_place
    save_path,          \* Option<&str>: where draw_graph is asked to keep a copy
    saved,              \* whether std::fs::write has written the copy
    output,             \* Result<Vec<u8>> returned by draw_graph
    is_private,         \* users.is_private of the owner's row
    allowed_people,     \* users.allowed_people of the owner's row, a Vec<u64>
    tasks,              \* the command handlers of the owner that are between two awaits
    revoked,            \* the users whose removal was the owner's last word on them
    last_request,       \* the last /bg or /graph request for the owner's data
    final_label_entries, \* Vec<&Entry>: the entries whose time label is drawn on the x axis
    user_settings,      \* &NightscoutInfo: microbolus_threshold and display_microbolus
    markers,            \* the treatment markers drawn on the canvas, in drawing order
    search              \* find_sticker_position at work: target_entry_idx and attempts

\* the state of draw_graph beyond reconciliation, segmentation and selection
renderVars == <<treatments, profile, points_px, placements, save_path, saved, output>>

\* what draw_graph draws around the curve
drawVars == <<final_label_entries, user_settings, markers, search>>

\* the owner's row of the users table and the handlers working on it
accessVars == <<is_private, allowed_people, tasks, revoked, last_request>>

vars == <<entries, hours, now, result, result2, status_ranges, filtered_ranges,
          thresholds, stickers, stickers_to_place, place_idx, occupied_areas, pc,
          treatments, profile, points_px, placements, save_path, saved, output,
          is_private, allowed_people, tasks, revoked, last_request,
          final_label_entries, user_settings, markers, search>>

----------------------------------------------------------------------------
(* Bounds and input domains *)

MaxLen == 3
MaxRenderLen == 4
MaxAnnotateLen == 3
MaxPlotLen == 2
MaxTreatments == 1
MaxProjectLen == 3
MaxCleanLen == 3
MaxTasks == 2
MaxLabelLen == 8
MaxDoses == 2
MaxSearchLen == 1

MsPerHour == 3600 * 1000
MsPerMinute == 60 * 1000

\* the clock reading of the modelled call: five hours after the epoch
NowMs == 5 * MsPerHour

HoursSet == {3, 4}

None == <<>>
Some(x) == <<x>>

NoDateString == None
DateString(ms) == Some([ok |-> TRUE, ms |-> ms])
BadDateString == Some([ok |-> FALSE, ms |-> 0])

MkEntry(id, sgv, mbg, date, mills, ds) ==
    [id |-> id, sgv |-> sgv, mbg |-> mbg, date |-> date, mills |-> mills,
     date_string |-> ds]

\* instants around the three-hour cutoff (NowMs - 3h = 2h after the epoch)
TOld  == NowMs - 4 * MsPerHour
TBase == NowMs - 3 * MsPerHour

ReconcileDomain ==
    \* sensor readings with a numeric date, no identifier
    { MkEntry(None, 100000, None, Some(t), None, NoDateString) :
        t \in {TOld, TBase, TBase + 20000, TBase + 30000, TBase + 40000} }
    \cup
    { MkEntry(None, v, None, Some(TBase + 20000), None, NoDateString) :
        v \in {100004, 100040} }
    \cup
    \* readings that carry the same identifier
    { MkEntry(Some("abc"), 100000, None, Some(TBase), None, NoDateString),
      MkEntry(Some("abc"), 100040, None, Some(TBase + 40000), None, NoDateString) }
    \cup
    \* a meter (calibration) reading
    { MkEntry(None, 100000, Some(100000), Some(TBase + 20000), None, NoDateString) }
    \cup
    \* readings whose instant comes from mills, from the date string alone, or
    \* from nowhere
    { MkEntry(None, 100000, None, None, Some(TBase + 20000), NoDateString),
      MkEntry(None, 100000, None, None, None, DateString(TBase)),
      MkEntry(None, 100000, None, None, None, DateString(TBase + 2 * MsPerHour)),
      MkEntry(None, 100040, None, None, None, BadDateString) }

\* readings below, at and above the thresholds, a few minutes to half an hour
\* apart; TBase + 999 and TBase + 30 min lie 1799.001 s apart and 1800 whole
\* seconds apart
SegmentTimes == {TBase + 999, TBase + 10 * MsPerMinute, TBase + 30 * MsPerMinute}

SegmentDomain ==
    { MkEntry(None, v, None, Some(t), None, NoDateString) :
        v \in {60000, 70000, 200000}, t \in SegmentTimes }

\* two lows half an hour apart and a high between them
AnnotateDomain ==
    { MkEntry(None, 60000, None, Some(TBase), None, NoDateString),
      MkEntry(None, 60000, None, Some(TBase + 30 * MsPerMinute), None, NoDateString),
      MkEntry(None, 200000, None, Some(TBase + 10 * MsPerMinute), None, NoDateString) }

\* the sticker lists a user may own: stickers as [id, category]
StickerLists ==
    { << [id |-> 1, category |-> "High"] >>,
      << [id |-> 2, category |-> "Any"] >>,
      << [id |-> 3, category |-> "Low"], [id |-> 2, category |-> "Any"],
         [id |-> 4, category |-> "Any"], [id |-> 5, category |-> "InRange"] >> }

\* Treatment, as far as draw_graph reads its time
MkTreatment(created_at, date, mills) ==
    [created_at |-> created_at, date |-> date, mills |-> mills]

\* a render's samples: one older than the window, a low early in the window,
\* and late in it a meter reading followed 25 minutes later by a higher
\* in-range reading
RenderDomain ==
    { MkEntry(None, 100000, None, Some(TOld), None, NoDateString),
      MkEntry(None, 60000, None, Some(TBase + 30 * MsPerMinute), None, NoDateString),
      MkEntry(None, 100000, Some(110000), Some(TBase + 125 * MsPerMinute), None,
              NoDateString),
      MkEntry(None, 160000, None, Some(TBase + 150 * MsPerMinute), None, NoDateString) }

\* a treatment ten minutes before the late reading
TreatmentDomain ==
    { MkTreatment(None, Some(TBase + 140 * MsPerMinute), None) }

\* five stickers of every category, and a single one
RenderStickerLists ==
    { << [id |-> 1, category |-> "Low"], [id |-> 2, category |-> "High"],
         [id |-> 3, category |-> "High"], [id |-> 4, category |-> "InRange"],
         [id |-> 5, category |-> "Any"] >>,
      << [id |-> 1, category |-> "Low"] >> }

\* the stickers whose image may fail to be fetched or decoded
FlakyImages == {1, 5}

\* what profile.store.get(default_profile_name) finds, with the save_path of
\* the call: no profile, or a mg/dL profile
RenderRequests ==
    { [profile |-> <<>>, save_path |-> <<"graph.png">>],
      [profile |-> <<"mg/dl">>, save_path |-> <<"graph.png">>] }

\* samples a minute apart, one and a half hours later, at the cutoff of a
\* three-hour window, and ten minutes ahead of the clock; values below, inside
\* and above the value axis
ProjectDomain ==
    { MkEntry(None, 100000, None, Some(TBase + 60 * MsPerMinute), None, NoDateString),
      MkEntry(None, 120000, None, Some(TBase + 60 * MsPerMinute + 50000), None,
              NoDateString),
      MkEntry(None, 140000, None, Some(TBase + 61 * MsPerMinute), None, NoDateString),
      MkEntry(None, 450000, None, Some(TBase + 150 * MsPerMinute), None, NoDateString),
      MkEntry(None, 30000, None, Some(TBase), None, NoDateString),
      MkEntry(None, 100000, None, Some(NowMs + 10 * MsPerMinute), None, NoDateString) }

\* entries as the tests of clean_entries build them (no date, no mills): two
\* with a date string ending in .546Z, one ending in .789Z, one without a
\* date string, and one whose date string has no fraction
CleanDomain ==
    { MkEntry(Some("id1"), 100000, None, None, None, DateString(TBase + 546)),
      MkEntry(Some("id2"), 110000, None, None, None, DateString(TBase + 546)),
      MkEntry(Some("id3"), 120000, None, None, None, DateString(TBase + 789)),
      MkEntry(Some("id4"), 100000, None, None, None, NoDateString),
      MkEntry(Some("id5"), 130000, None, None, None, BadDateString) }

\* <<target_low, target_high>>: the static defaults and a custom profile
ThresholdSet == { <<70000, 180000>>, <<80000, 200000>> }

----------------------------------------------------------------------------
(* Entry helpers: src/utils/nightscout.rs *)

OrOpt(a, b) == IF a # None THEN a ELSE b
UnwrapOr(o, d) == IF o # None THEN o[1] ELSE d
Abs(x) == IF x < 0 THEN -x ELSE x

\* integer division that truncates toward zero, as Rust's `as i32` and `/` do
TruncDiv(v, d) == IF v >= 0 THEN v \div d ELSE -((-v) \div d)
\* a comparison of the raw values, without the scaling to two decimals
CentsExact(v) == v

\* `(v * 100.0) as i32`: the value in hundredths, truncated toward zero
Cents(v) == TruncDiv(v, 10)

\* Entry::millis_to_user_timezone: the instant of an entry; the timezone only
\* changes the presentation of a DateTime, never the instant it compares by.
\* The fallback is the clock reading.
MillisToUserTimezone(e, clock) ==
    LET timestamp == OrOpt(e.date, e.mills) IN
    IF timestamp # None THEN timestamp[1]
    ELSE IF e.date_string # None
         THEN (IF e.date_string[1].ok THEN e.date_string[1].ms ELSE clock)
         ELSE clock

\* entry.date.or(entry.mills).unwrap_or(0)
EntryTimestamp(e) == UnwrapOr(OrOpt(e.date, e.mills), 0)

DupToleranceMs == 30000

SameValue(entry, existing) ==
    IF entry.mbg # None /\ existing.mbg # None
    THEN Cents(entry.mbg[1]) = Cents(existing.mbg[1])
    ELSE IF entry.mbg = None /\ existing.mbg = None
         THEN Cents(entry.sgv) = Cents(existing.sgv)
         ELSE FALSE

CloseInTime(entry, existing) ==
    Abs(EntryTimestamp(entry) - EntryTimestamp(existing)) <= DupToleranceMs

\* the closure passed to processed_entries.iter().any(..)
IsDuplicate(entry, processed) ==
    \E k \in 1..Len(processed) :
        CloseInTime(entry, processed[k]) /\ SameValue(entry, processed[k])

\* a window that excludes the cutoff instant itself
InWindowStrict(e, cutoff, clock) == MillisToUserTimezone(e, clock) > cutoff

InWindow(e, cutoff, clock) == MillisToUserTimezone(e, clock) >= cutoff

RECURSIVE SelectSeqBy(_, _, _)
\* entries.iter().filter(..).collect()
SelectSeqBy(s, cutoff, clock) ==
    IF s = <<>> THEN <<>>
    ELSE LET rest == SelectSeqBy(Tail(s), cutoff, clock) IN
         IF InWindow(Head(s), cutoff, clock) THEN <<Head(s)>> \o rest ELSE rest

\* a window of `hours` days instead of hours
TimeFilteredDays(es, hrs, clock) == SelectSeqBy(es, clock - hrs * 24 * MsPerHour, clock)

\* cutoff_time = now - hours, then the filter on entry_time >= cutoff_time
TimeFiltered(es, hrs, clock) == SelectSeqBy(es, clock - hrs * MsPerHour, clock)

RECURSIVE DedupFrom(_, _, _, _)
\* the `for entry in time_filtered` loop, from index i on
DedupFrom(tf, i, seen_ids, processed) ==
    IF i > Len(tf) THEN processed
    ELSE LET entry == tf[i] IN
         IF entry.id # None /\ entry.id[1] \in seen_ids
         THEN DedupFrom(tf, i + 1, seen_ids, processed)
         ELSE LET seen == IF entry.id # None THEN seen_ids \cup {entry.id[1]}
                          ELSE seen_ids IN
              IF IsDuplicate(entry, processed)
              THEN DedupFrom(tf, i + 1, seen, processed)
              ELSE DedupFrom(tf, i + 1, seen, Append(processed, entry))

RECURSIVE DedupAdjacentFrom(_, _, _, _)
DedupAdjacentFrom(tf, i, seen_ids, processed) ==
    IF i > Len(tf) THEN processed
    ELSE LET entry == tf[i] IN
         IF entry.id # None /\ entry.id[1] \in seen_ids
         THEN DedupAdjacentFrom(tf, i + 1, seen_ids, processed)
         ELSE LET seen == IF entry.id # None THEN seen_ids \cup {entry.id[1]}
                          ELSE seen_ids IN
              IF i > 1 /\ IsDuplicate(entry, <<tf[i - 1]>>)
              THEN DedupAdjacentFrom(tf, i + 1, seen, processed)
              ELSE DedupAdjacentFrom(tf, i + 1, seen, Append(processed, entry))

RECURSIVE DedupPrependFrom(_, _, _, _)
DedupPrependFrom(tf, i, seen_ids, processed) ==
    IF i > Len(tf) THEN processed
    ELSE LET entry == tf[i] IN
         IF entry.id # None /\ entry.id[1] \in seen_ids
         THEN DedupPrependFrom(tf, i + 1, seen_ids, processed)
         ELSE LET seen == IF entry.id # None THEN seen_ids \cup {entry.id[1]}
                          ELSE seen_ids IN
              IF IsDuplicate(entry, processed)
              THEN DedupPrependFrom(tf, i + 1, seen, processed)
              ELSE DedupPrependFrom(tf, i + 1, seen, <<entry>> \o processed)

\* a deduplication that compares each entry with the input entry just before it
RemoveDuplicatesAdjacent(tf) == DedupAdjacentFrom(tf, 1, {}, <<>>)

\* a deduplication that inserts retained entries at the front
RemoveDuplicatesPrepend(tf) == DedupPrependFrom(tf, 1, {}, <<>>)

\* the deduplication loop of filter_and_clean_entries
RemoveDuplicates(tf) == DedupFrom(tf, 1, {}, <<>>)

Err(e) == [err |-> e, list |-> <<>>]
Ok(l) == [err |-> "none", list |-> l]

\* Nightscout::filter_and_clean_entries
FilterAndCleanEntries(es, hrs, clock) ==
    IF es = <<>> THEN Err("NoEntries")
    ELSE LET tf == TimeFiltered(es, hrs, clock) IN
         IF tf = <<>> THEN Err("NoEntries")
         ELSE LET processed == RemoveDuplicates(tf) IN
              IF processed = <<>> THEN Err("NoEntries") ELSE Ok(processed)

\* Nightscout::get_date_id: the part of the date string after its last '.',
\* MissingData when there is no date string or no '.' in it.  For a date
\* string such as 2025-09-23T08:38:01.546Z that part is the milliseconds
\* (546Z); the date string that does not parse stands for one without a '.'.
GetDateId(e) ==
    IF e.date_string = None THEN [err |-> "MissingData", id |-> 0]
    ELSE IF ~e.date_string[1].ok THEN [err |-> "MissingData", id |-> 0]
    ELSE [err |-> "none", id |-> e.date_string[1].ms % 1000]

\* the is_duplicate closure of clean_entries: same_sgv && close_timestamps,
\* with timestamps date.or(mills).unwrap_or(0), a tolerance of 5000 ms and
\* values less than 0.1 apart
IsCleanDuplicate(entry, cleaned) ==
    \E k \in 1..Len(cleaned) :
        LET entry_timestamp == UnwrapOr(OrOpt(entry.date, entry.mills), 0)
            existing_timestamp == UnwrapOr(OrOpt(cleaned[k].date, cleaned[k].mills), 0)
        IN  /\ Abs(entry.sgv - cleaned[k].sgv) < 100
            /\ Abs(entry_timestamp - existing_timestamp) <= 5000

RECURSIVE CleanFrom(_, _, _)
\* the `for entry in entries` loop of clean_entries, from index i on
CleanFrom(es, i, cleaned) ==
    IF i > Len(es) THEN cleaned
    ELSE CleanFrom(es, i + 1,
                   IF IsCleanDuplicate(es[i], cleaned) THEN cleaned
                   ELSE Append(cleaned, es[i]))

\* Nightscout::clean_entries
CleanEntries(es) ==
    IF es = <<>> THEN Err("NoEntries")
    ELSE LET cleaned == CleanFrom(es, 1, <<>>) IN
         IF cleaned = <<>> THEN Err("NoEntries") ELSE Ok(cleaned)

----------------------------------------------------------------------------
(* Status ranges: src/utils/graph/types.rs, src/utils/graph/stickers.rs *)

\* a classification that counts the thresholds themselves as Low and High
FromSgvInclusive(sgv, target_low, target_high) ==
    IF sgv <= target_low THEN "Low"
    ELSE IF sgv >= target_high THEN "High"
    ELSE "InRange"

\* GlucoseStatus::from_sgv
FromSgv(sgv, target_low, target_high) ==
    IF sgv < target_low THEN "Low"
    ELSE IF sgv > target_high THEN "High"
    ELSE "InRange"

\* a (GlucoseStatus, usize, usize) tuple; indices are 0-based as in the code,
\* so entries[i] of the code is es[i + 1] here
Range(status, start, end) == [status |-> status, start |-> start, end |-> end]

RECURSIVE ScanRanges(_, _, _, _, _, _, _)
\* the `for (i, entry) in entries.iter().enumerate().skip(1)` loop and the
\* push that follows it
ScanRanges(es, i, current_status, range_start, acc, target_low, target_high) ==
    IF i >= Len(es)
    THEN Append(acc, Range(current_status, range_start, Len(es) - 1))
    ELSE LET status == FromSgv(es[i + 1].sgv, target_low, target_high) IN
         IF status # current_status
         THEN ScanRanges(es, i + 1, status, i,
                         Append(acc, Range(current_status, range_start, i - 1)),
                         target_low, target_high)
         ELSE ScanRanges(es, i + 1, current_status, range_start, acc,
                         target_low, target_high)

\* a segmentation that forgets to close the final range
IdentifyStatusRangesOpenEnd(es, target_low, target_high) ==
    IF es = <<>> THEN <<>>
    ELSE LET all == ScanRanges(es, 1, FromSgv(es[1].sgv, target_low, target_high),
                               0, <<>>, target_low, target_high)
         IN  SubSeq(all, 1, Len(all) - 1)

\* identify_status_ranges
IdentifyStatusRanges(es, target_low, target_high) ==
    IF es = <<>> THEN <<>>
    ELSE ScanRanges(es, 1, FromSgv(es[1].sgv, target_low, target_high), 0, <<>>,
                    target_low, target_high)

\* DateTime::timestamp(): whole seconds since the epoch
TimestampSecs(ms) == ms \div 1000

MinDurationInRangeHigh == 30

\* one minimum duration for every status
MinDurationAll(status) == MinDurationInRangeHigh

\* the `match status` of filter_ranges_by_duration
MinDuration(status) == IF status = "Low" THEN 0 ELSE MinDurationInRangeHigh

\* ((end_time.timestamp() - start_time.timestamp()).abs()) / 60
DurationMinutes(r, es, clock) ==
    LET start_time == TimestampSecs(MillisToUserTimezone(es[r.start + 1], clock))
        end_time == TimestampSecs(MillisToUserTimezone(es[r.end + 1], clock))
    IN  Abs(end_time - start_time) \div 60

RECURSIVE FilterRangesFrom(_, _, _, _)
\* the `for (status, start_idx, end_idx) in status_ranges` loop
FilterRangesFrom(ranges, k, es, clock) ==
    IF k > Len(ranges) THEN <<>>
    ELSE LET r == ranges[k]
             rest == FilterRangesFrom(ranges, k + 1, es, clock)
         IN  IF r.start < Len(es) /\ r.end < Len(es)
                /\ DurationMinutes(r, es, clock) >= MinDuration(r.status)
             THEN <<r>> \o rest
             ELSE rest

\* filter_ranges_by_duration
FilterRangesByDuration(ranges, es, clock) == FilterRangesFrom(ranges, 1, es, clock)

----------------------------------------------------------------------------
(* Sticker selection and placement: src/utils/graph/stickers.rs,           *)
(* src/utils/graph/mod.rs                                                  *)

\* a cap of five stickers a graph
MaxStickersOfFive == 2 + 3

MAX_STICKERS_PER_GRAPH == 3

Sticker(id, category) == [id |-> id, category |-> category]

\* GlucoseStatus::to_sticker_category
ToStickerCategory(status) == status

RECURSIVE PoolOf(_, _)
\* stickers_by_category.get(&category).unwrap_or(&empty_vec): the stickers of
\* one category, in the order of the input
PoolOf(ss, category) ==
    IF ss = <<>> THEN <<>>
    ELSE IF Head(ss).category = category
         THEN <<Head(ss)>> \o PoolOf(Tail(ss), category)
         ELSE PoolOf(Tail(ss), category)

\* *status_counts.get(&status).unwrap_or(&1)
StatusCount(ranges, status) ==
    LET n == Cardinality({k \in 1..Len(ranges) : ranges[k].status = status}) IN
    IF n = 0 THEN 1 ELSE n

\* (rand::random::<f32>() * len as f32) as usize, then .min(len - 1): the
\* indices the draw can produce (1-based here)
RandomIndex(len) == 1..len

\* a loop guard that is off by one
SelectionOpenInclusive(selected) == Len(selected) <= MAX_STICKERS_PER_GRAPH

\* stickers_to_place.len() < MAX_STICKERS_PER_GRAPH, the guard of both loops
SelectionOpen(selected) == Len(selected) < MAX_STICKERS_PER_GRAPH

\* the `let selected_sticker = if .. else if .. else if .. else break` of the
\* range-driven loop: the stickers one iteration can select (none: break)
SelectedStickers(use_any_sticker, contextual_stickers, any_stickers) ==
    IF use_any_sticker /\ any_stickers # <<>>
    THEN {any_stickers[i] : i \in RandomIndex(Len(any_stickers))}
    ELSE IF contextual_stickers # <<>>
    THEN {contextual_stickers[i] : i \in RandomIndex(Len(contextual_stickers))}
    ELSE IF any_stickers # <<>>
    THEN {any_stickers[i] : i \in RandomIndex(Len(any_stickers))}
    ELSE {}

\* a draw of use_any_sticker that does not look at status_count
UseAnyDrawsAlways(status_count) == {TRUE, FALSE}

\* the outcomes of `rand::random::<f32>() < 0.3` where the code draws it
UseAnyDraws(status_count) == IF status_count > 1 THEN {TRUE, FALSE} ELSE {FALSE}

\* the canvas of draw_graph
CanvasWidth == 1700
CanvasHeight == 1100
LeftMargin == 160
RightMargin == 80
TopMargin == 80
BottomMargin == 160
PlotPadding == 20

InnerPlotLeft == LeftMargin + PlotPadding
InnerPlotRight == CanvasWidth - RightMargin - PlotPadding
InnerPlotTop == TopMargin + PlotPadding
InnerPlotBottom == CanvasHeight - BottomMargin - PlotPadding

\* StickerConfig::default().sticker_radius
StickerRadius == 120

InnerPlotW == InnerPlotRight - InnerPlotLeft
InnerPlotH == InnerPlotBottom - InnerPlotTop

\* StickerConfig::default()
CurveAvoidanceDistance == 100
TreatmentAvoidanceDistance == 120
MaxAttempts == 500

Clamp(v, lo, hi) == IF v < lo THEN lo ELSE IF v > hi THEN hi ELSE v

\* (a / b).ceil() for a >= 0
CeilDiv(a, b) == (a + b - 1) \div b

\* the `match units_str` of draw_graph: the display unit of the profile
PrefOf(units) == IF units \in {"mmol/l", "mmol"} THEN "Mmol" ELSE "MgDl"

RECURSIVE MaxSgv(_)
\* entries.iter().map(|e| e.sgv).fold(0.0, |a, b| a.max(b))
MaxSgv(es) ==
    IF es = <<>> THEN 0
    ELSE LET m == MaxSgv(Tail(es)) IN IF Head(es).sgv > m THEN Head(es).sgv ELSE m

\* (y_min, y_max) of draw_graph, both in thousandths of a mg/dL: the Mmol
\* bounds are the mmol/L bounds times 18, which is how project_y and the
\* clamp of points_px use them
YRange(es, pref) ==
    IF pref = "MgDl"
    THEN <<40000, Clamp(CeilDiv(MaxSgv(es), 10000) * 10000, 200000, 400000)>>
    ELSE <<2 * 18000, Clamp(CeilDiv(MaxSgv(es), 18000), 11, 22) * 18000>>

\* the project_y closure, to the whole pixel
ProjectY(value, y_range) ==
    InnerPlotBottom
        - TruncDiv((value - y_range[1]) * InnerPlotH, y_range[2] - y_range[1])

\* the calculate_x_position closure, to the whole pixel: newest_time is the
\* clock reading, oldest_time lies `hours` before it, and instants count in
\* whole seconds (DateTime::timestamp)
CalculateXPosition(entry_time, clock, hrs) ==
    LET oldest_time == clock - hrs * MsPerHour
        time_range_seconds == TimestampSecs(clock) - TimestampSecs(oldest_time)
        time_from_oldest == TimestampSecs(entry_time) - TimestampSecs(oldest_time)
    IN  InnerPlotLeft + TruncDiv(time_from_oldest * InnerPlotW, time_range_seconds)

\* points spread evenly from the left to the right edge, one step per sample
PointsPxByIndex(es, clock, hrs, pref) ==
    LET y_range == YRange(es, pref) IN
    [i \in 1..Len(es) |->
        << InnerPlotLeft
               + (IF Len(es) > 1 THEN ((i - 1) * InnerPlotW) \div (Len(es) - 1) ELSE 0),
           ProjectY(Clamp(es[i].sgv, y_range[1], y_range[2]), y_range) >>]

\* the `for entry in &entries` loop that fills points_px
PointsPx(es, clock, hrs, pref) ==
    LET y_range == YRange(es, pref) IN
    [i \in 1..Len(es) |->
        << CalculateXPosition(MillisToUserTimezone(es[i], clock), clock, hrs),
           ProjectY(Clamp(es[i].sgv, y_range[1], y_range[2]), y_range) >>]

\* Entry::has_mbg
HasMbg(e) == e.mbg # None /\ e.mbg[1] > 0

\* the `let treatment_time = ..` of draw_graph: None where the loop continues
TreatmentTime(t, clock) ==
    IF t.created_at # None
    THEN (IF t.created_at[1].ok THEN Some(t.created_at[1].ms) ELSE None)
    ELSE OrOpt(t.date, t.mills)

SetMin(S) == CHOOSE m \in S : \A k \in S : m <= k

\* the inner loop of the treatment_positions block: the y of the entry it
\* stops at, `inner_plot_bottom - inner_plot_h / 2.0` when it stops at none.
\* Its test `time_diff < i64::MAX` holds of the difference of any two
\* timestamps, so the loop stops at the first entry.
AvoidanceY(treatment_time, es, pts, clock) ==
    LET time_diff(i) ==
            Abs(TimestampSecs(treatment_time)
                    - TimestampSecs(MillisToUserTimezone(es[i], clock)))
        hits == {i \in 1..Len(es) : time_diff(i) >= 0}
    IN  IF hits = {} THEN InnerPlotBottom - InnerPlotH \div 2
        ELSE pts[SetMin(hits)][2]

\* the inner loop of the treatment drawing block: the y of the entry closest
\* in time to the treatment (the first of them when several are as close)
ClosestY(treatment_time, es, pts, clock) ==
    LET time_diff(i) ==
            Abs(TimestampSecs(treatment_time)
                    - TimestampSecs(MillisToUserTimezone(es[i], clock)))
        closest == {i \in 1..Len(es) : \A k \in 1..Len(es) : time_diff(i) <= time_diff(k)}
    IN  IF closest = {} THEN InnerPlotBottom - InnerPlotH \div 2
        ELSE pts[SetMin(closest)][2]

RECURSIVE TreatmentPoints(_, _, _, _, _, _, _)
\* the `for treatment in treatments` loops of draw_graph: one point per
\* treatment with a usable time; closest_by_time tells the drawing loop
\* (closest entry) from the treatment_positions loop
TreatmentPoints(ts, es, pts, clock, hrs, closest_by_time, k) ==
    IF k > Len(ts) THEN <<>>
    ELSE LET treatment_time == TreatmentTime(ts[k], clock)
             rest == TreatmentPoints(ts, es, pts, clock, hrs, closest_by_time, k + 1)
         IN  IF treatment_time = None THEN rest
             ELSE << << CalculateXPosition(treatment_time[1], clock, hrs),
                        IF closest_by_time
                        THEN ClosestY(treatment_time[1], es, pts, clock)
                        ELSE AvoidanceY(treatment_time[1], es, pts, clock) >> >>
                  \o rest

RECURSIVE MbgPoints(_, _, _, _)
\* the `if entry.has_mbg()` loops: (x of the entry, project_y(mbg))
MbgPoints(es, pts, y_range, i) ==
    IF i > Len(es) THEN <<>>
    ELSE LET rest == MbgPoints(es, pts, y_range, i + 1) IN
         IF HasMbg(es[i])
         THEN << << pts[i][1], ProjectY(UnwrapOr(es[i].mbg, 0), y_range) >> >> \o rest
         ELSE rest

\* treatment_positions, as find_sticker_position receives it
TreatmentPositions(ts, es, clock, hrs, pref) ==
    LET pts == PointsPx(es, clock, hrs, pref) IN
    TreatmentPoints(ts, es, pts, clock, hrs, FALSE, 1)
        \o MbgPoints(es, pts, YRange(es, pref), 1)

\* the anchors the treatment and calibration markers are drawn from
MarkerAnchors(ts, es, clock, hrs, pref) ==
    LET pts == PointsPx(es, clock, hrs, pref) IN
    TreatmentPoints(ts, es, pts, clock, hrs, TRUE, 1)
        \o MbgPoints(es, pts, YRange(es, pref), 1)

\* positions of the random search are in hundredths of the inner plot
AbsX(x) == InnerPlotLeft + (x * (InnerPlotRight - InnerPlotLeft)) \div 100
AbsY(y) == InnerPlotTop + (y * (InnerPlotBottom - InnerPlotTop)) \div 100

Sq(x) == x * x

\* a collision test that forgets the radius of the occupied area
HasCollisionOwnRadius(abs_x, abs_y, occupied) ==
    \E k \in 1..Len(occupied) :
        Sq(abs_x - occupied[k][1]) + Sq(abs_y - occupied[k][2]) < Sq(StickerRadius)

\* the has_collision closure: distance < config.sticker_radius + r
HasCollision(abs_x, abs_y, occupied) ==
    \E k \in 1..Len(occupied) :
        Sq(abs_x - occupied[k][1]) + Sq(abs_y - occupied[k][2])
            < Sq(StickerRadius + occupied[k][3])

\* the too_close_to_curve and too_close_to_treatments closures:
\* distance < config.curve_avoidance_distance (treatment_avoidance_distance)
TooClose(abs_x, abs_y, points, distance) ==
    \E k \in 1..Len(points) :
        Sq(abs_x - points[k][1]) + Sq(abs_y - points[k][2]) < Sq(distance)

\* `if !has_collision && !too_close_to_curve && !too_close_to_treatments`
Accepted(c, pts, occupied, treatment_positions) ==
    /\ ~HasCollision(AbsX(c[1]), AbsY(c[2]), occupied)
    /\ ~TooClose(AbsX(c[1]), AbsY(c[2]), pts, CurveAvoidanceDistance)
    /\ ~TooClose(AbsX(c[1]), AbsY(c[2]), treatment_positions, TreatmentAvoidanceDistance)

\* the `let target_entry_idx = ..` draw: an index of the range, or of any entry
TargetEntryIdxs(range, es) ==
    IF range # None THEN range[1][1]..range[1][2] ELSE 0..(Len(es) - 1)

\* search_expansion = attempts / max_attempts * 0.5, in hundredths, taken in
\* steps of a quarter
SearchExpansion(attempts) == 25 * ((attempts * 2) \div MaxAttempts)

\* what the draw of an iteration depends on: the search expansion and
\* whether the iteration is in the first half of the budget
StageOf(attempts) ==
    [search_expansion |-> SearchExpansion(attempts),
     first_half |-> attempts < MaxAttempts \div 2]

\* the stages the `for attempts in 0..config.max_attempts` loop goes
\* through, and the first iteration of each
AttemptStages == { StageOf(a) : a \in 0..(MaxAttempts - 1) }
StageStart ==
    [st \in AttemptStages |-> SetMin({a \in 0..(MaxAttempts - 1) : StageOf(a) = st})]

\* (rand - 0.5) * horizontal_range for the draws 1/4 and 3/4
HorizontalOffsets(horizontal_range) ==
    {-(horizontal_range \div 4), horizontal_range \div 4}

\* the candidates of the four corner zones (rand * 0.3 + 0.1 or + 0.6 with
\* the draw 1/2) and of the interior zone (rand * 0.6 + 0.2)
CornerCandidates == { <<25, 25>>, <<75, 25>>, <<25, 75>>, <<75, 75>> }
InteriorCandidates == { <<30, 40>>, <<50, 75>> }

\* the (x, y) an iteration of the attempt loop can draw
Candidates(range, target, stage) ==
    IF range # None
    THEN LET target_x_normalized == TruncDiv((target[1] - InnerPlotLeft) * 100, InnerPlotW)
             target_y_normalized == TruncDiv((target[2] - InnerPlotTop) * 100, InnerPlotH)
         IN  { << Clamp(target_x_normalized + h, 5, 95),
                  Clamp(target_y_normalized + v, 5, 95) >> :
                 h \in HorizontalOffsets(15 + stage.search_expansion),
                 v \in {-(20 + stage.search_expansion), 20 + stage.search_expansion} }
    ELSE IF stage.first_half THEN CornerCandidates
    ELSE InteriorCandidates

\* the `for attempts in 0..config.max_attempts` loop for one target entry, as
\* the set of its possible returns.  An iteration is passed over when its draw
\* is rejected; the loop cannot get past an iteration all of whose draws are
\* accepted; None is returned when every iteration drew a rejected candidate.
SearchFrom(range, target, pts, occupied, treatment_positions) ==
    LET accepted == [st \in AttemptStages |->
                        { c \in Candidates(range, target, st) :
                            Accepted(c, pts, occupied, treatment_positions) }]
        sure == {st \in AttemptStages : accepted[st] = Candidates(range, target, st)}
        reached == {st \in AttemptStages :
                       \A su \in sure : StageStart[st] <= StageStart[su]}
    IN  { Some(c) : c \in UNION { accepted[st] : st \in reached } }
        \cup (IF sure = {} THEN {None} ELSE {})

\* find_sticker_position, as the set of its possible returns
FindStickerPosition(range, es, pts, occupied, treatment_positions) ==
    UNION { SearchFrom(range, IF range # None THEN pts[idx + 1] ELSE <<0, 0>>,
                       pts, occupied, treatment_positions) :
            idx \in TargetEntryIdxs(range, es) }

----------------------------------------------------------------------------
(* The pipeline as a state machine *)

NoResult == [err |-> "unset", list |-> <<>>]

\* draw_graph has not returned
NoOutput == [err |-> "unset", raster |-> FALSE]

\* a request that has not been made
NoRequest == [requester |-> 0, cmd |-> "none", served |-> FALSE,
              is_private |-> FALSE, listed |-> FALSE, revoked |-> FALSE]

\* no handler of the owner is between two awaits
NoTasks == [slot \in 1..MaxTasks |-> [cmd |-> "idle"]]

\* the owner's row as setup.rs inserts it (allowed_people: vec![]), before the
\* privacy button is read
NoAccess ==
    /\ is_private = TRUE
    /\ allowed_people = <<>>
    /\ tasks = NoTasks
    /\ revoked = {}
    /\ last_request = NoRequest

\* the settings setup.rs gives a new user: microbolus_threshold 0.5 units (in
\* thousandths), display_microbolus on
DefaultSettings == [microbolus_threshold |-> 500, display_microbolus |-> TRUE]

\* find_sticker_position has not been called
NoSearch == [target_entry_idx |-> 0, attempts |-> 0]

\* draw_graph has drawn nothing yet
NothingDrawn ==
    /\ final_label_entries = <<>>
    /\ user_settings = DefaultSettings
    /\ markers = <<>>
    /\ search = NoSearch

InitWith(stickerLists) ==
    /\ entries = <<>>
    /\ hours = 0
    /\ now = NowMs
    /\ result = NoResult
    /\ result2 = NoResult
    /\ status_ranges = <<>>
    /\ filtered_ranges = <<>>
    /\ thresholds = <<0, 0>>
    /\ stickers \in stickerLists
    /\ stickers_to_place = <<>>
    /\ place_idx = 0
    /\ occupied_areas = <<>>
    /\ pc = "input"
    /\ treatments = <<>>
    /\ profile = Some("mg/dl")
    /\ points_px = <<>>
    /\ placements = <<>>
    /\ save_path = None
    /\ saved = FALSE
    /\ output = NoOutput
    /\ NoAccess
    /\ NothingDrawn

Init == InitWith({<<>>})

\* the data-source collaborator hands over one more entry
AddEntry(domain, max) ==
    /\ pc = "input"
    /\ Len(entries) < max
    /\ \E e \in domain : entries' = Append(entries, e)
    /\ UNCHANGED <<hours, now, result, result2, status_ranges, filtered_ranges,
                   thresholds, stickers, stickers_to_place, place_idx, occupied_areas, pc>>
    /\ UNCHANGED renderVars
    /\ UNCHANGED accessVars
    /\ UNCHANGED drawVars

\* draw_graph's call of filter_and_clean_entries(entries, hours, user_timezone)
Reconcile(hourSet) ==
    /\ pc = "input"
    /\ \E h \in hourSet :
         /\ hours' = h
         /\ result' = FilterAndCleanEntries(entries, h, now)
    /\ pc' = IF result'.err = "none" THEN "reconciled" ELSE "failed"
    /\ UNCHANGED <<entries, now, result2, status_ranges, filtered_ranges,
                   thresholds, stickers, stickers_to_place, place_idx, occupied_areas>>
    /\ UNCHANGED renderVars
    /\ UNCHANGED accessVars
    /\ UNCHANGED drawVars

\* filter_and_clean_entries applied to the list it returned
ReReconcile ==
    /\ pc = "reconciled"
    /\ result2' = FilterAndCleanEntries(result.list, hours, now)
    /\ pc' = "rereconciled"
    /\ UNCHANGED <<entries, hours, now, result, status_ranges, filtered_ranges,
                   thresholds, stickers, stickers_to_place, place_idx, occupied_areas>>
    /\ UNCHANGED renderVars
    /\ UNCHANGED accessVars
    /\ UNCHANGED drawVars

\* draw_graph's call of identify_status_ranges on the reconciled entries
IdentifyRanges(thresholdSet) ==
    /\ pc = "reconciled"
    /\ \E th \in thresholdSet :
         /\ thresholds' = th
         /\ status_ranges' = IdentifyStatusRanges(result.list, th[1], th[2])
    /\ pc' = "identified"
    /\ UNCHANGED <<entries, hours, now, result, result2, filtered_ranges,
                   stickers, stickers_to_place, place_idx, occupied_areas>>
    /\ UNCHANGED renderVars
    /\ UNCHANGED accessVars
    /\ UNCHANGED drawVars

\* draw_graph's call of filter_ranges_by_duration
FilterRanges ==
    /\ pc = "identified"
    /\ filtered_ranges' = FilterRangesByDuration(status_ranges, result.list, now)
    /\ pc' = "filtered"
    /\ UNCHANGED <<entries, hours, now, result, result2, status_ranges,
                   thresholds, stickers, stickers_to_place, place_idx, occupied_areas>>
    /\ UNCHANGED renderVars
    /\ UNCHANGED accessVars
    /\ UNCHANGED drawVars

NextSegment ==
    \/ AddEntry(SegmentDomain, MaxRenderLen)
    \/ Reconcile({3})
    \/ IdentifyRanges(ThresholdSet)
    \/ FilterRanges

SpecSegment == Init /\ [][NextSegment]_vars

\* one iteration of the range-driven loop of select_stickers_to_place that
\* pushes a sticker
SelectByRange ==
    /\ pc = "filtered"
    /\ SelectionOpen(stickers_to_place)
    /\ filtered_ranges # <<>>
    /\ \E range_idx \in RandomIndex(Len(filtered_ranges)) :
         LET r == filtered_ranges[range_idx]
             contextual_stickers == PoolOf(stickers, ToStickerCategory(r.status))
             any_stickers == PoolOf(stickers, "Any")
         IN  /\ ~(contextual_stickers = <<>> /\ any_stickers = <<>>)
             /\ \E use_any_sticker \in UseAnyDraws(StatusCount(filtered_ranges, r.status)) :
                  \E selected_sticker \in SelectedStickers(use_any_sticker,
                                              contextual_stickers, any_stickers) :
                      stickers_to_place' =
                          Append(stickers_to_place,
                                 [sticker |-> selected_sticker,
                                  range |-> Some(<<r.start, r.end>>)])
    /\ UNCHANGED <<entries, hours, now, result, result2, status_ranges, filtered_ranges,
                   thresholds, stickers, place_idx, occupied_areas, pc>>
    /\ UNCHANGED renderVars
    /\ UNCHANGED accessVars
    /\ UNCHANGED drawVars

\* the range-driven loop ends: its guard fails, or an iteration breaks
SelectByRangeExit ==
    /\ pc = "filtered"
    /\ \/ ~SelectionOpen(stickers_to_place)
       \/ filtered_ranges = <<>>
       \/ \E range_idx \in RandomIndex(Len(filtered_ranges)) :
            /\ PoolOf(stickers, ToStickerCategory(filtered_ranges[range_idx].status)) = <<>>
            /\ PoolOf(stickers, "Any") = <<>>
    /\ pc' = "topup"
    /\ UNCHANGED <<entries, hours, now, result, result2, status_ranges, filtered_ranges,
                   thresholds, stickers, stickers_to_place, place_idx, occupied_areas>>
    /\ UNCHANGED renderVars
    /\ UNCHANGED accessVars
    /\ UNCHANGED drawVars

\* one iteration of the second loop: top up from the Any pool, with no range
TopUp ==
    /\ pc = "topup"
    /\ SelectionOpen(stickers_to_place)
    /\ PoolOf(stickers, "Any") # <<>>
    /\ \E idx \in RandomIndex(Len(PoolOf(stickers, "Any"))) :
         stickers_to_place' =
             Append(stickers_to_place,
                    [sticker |-> PoolOf(stickers, "Any")[idx], range |-> None])
    /\ UNCHANGED <<entries, hours, now, result, result2, status_ranges, filtered_ranges,
                   thresholds, stickers, place_idx, occupied_areas, pc>>
    /\ UNCHANGED renderVars
    /\ UNCHANGED accessVars
    /\ UNCHANGED drawVars

\* select_stickers_to_place returns
TopUpExit ==
    /\ pc = "topup"
    /\ ~(SelectionOpen(stickers_to_place) /\ PoolOf(stickers, "Any") # <<>>)
    /\ pc' = "selected"
    /\ UNCHANGED <<entries, hours, now, result, result2, status_ranges, filtered_ranges,
                   thresholds, stickers, stickers_to_place, place_idx, occupied_areas>>
    /\ UNCHANGED renderVars
    /\ UNCHANGED accessVars
    /\ UNCHANGED drawVars

\* a loop body that records the middle of the plot for a sticker without a
\* position
RecordedAreasAlways(occupied, found) ==
    IF found # None
    THEN Append(occupied, <<AbsX(found[1][1]), AbsY(found[1][2]), StickerRadius>>)
    ELSE Append(occupied, <<AbsX(50), AbsY(50), StickerRadius>>)

\* occupied_areas after one iteration of the sticker loop: the
\* `occupied_areas.push((abs_x, abs_y, config.sticker_radius))` of the
\* `if let Some((x, y))` branch, nothing in the else branch
RecordedAreas(occupied, found) ==
    IF found # None
    THEN Append(occupied, <<AbsX(found[1][1]), AbsY(found[1][2]), StickerRadius>>)
    ELSE occupied

\* a loop body that hands the error of draw_sticker on with `?`
AfterDrawStickerPropagate(draw_ok) == IF draw_ok THEN "selected" ELSE "done"

\* where the sticker loop is after `if let Err(e) = draw_sticker(..).await`:
\* the error is logged with tracing::warn! and the loop goes on
AfterDrawSticker(draw_ok) == "selected"

\* one iteration of draw_graph's `for (sticker, range) in stickers_to_place`:
\* a found position is recorded in occupied_areas and the sticker is drawn
\* there, which fails when its image cannot be fetched or decoded; a sticker
\* without a position is skipped
PlaceSticker(flaky) ==
    /\ pc = "selected"
    /\ place_idx < Len(stickers_to_place)
    /\ LET pref == PrefOf(profile[1])
           pts == PointsPx(result.list, now, hours, pref)
           treatment_positions ==
               TreatmentPositions(treatments, result.list, now, hours, pref)
       IN  \E found \in FindStickerPosition(stickers_to_place[place_idx + 1].range,
                                            result.list, pts, occupied_areas,
                                            treatment_positions) :
             /\ occupied_areas' = RecordedAreas(occupied_areas, found)
             /\ IF found # None
                THEN \E draw_ok \in (IF stickers_to_place[place_idx + 1].sticker.id \in flaky
                                       THEN BOOLEAN ELSE {TRUE}) :
                       /\ placements' = Append(placements,
                                               [found |-> TRUE, drawn |-> draw_ok])
                       /\ pc' = AfterDrawSticker(draw_ok)
                ELSE /\ placements' = Append(placements,
                                             [found |-> FALSE, drawn |-> FALSE])
                     /\ pc' = pc
    /\ place_idx' = place_idx + 1
    /\ UNCHANGED <<entries, hours, now, result, result2, status_ranges, filtered_ranges,
                   thresholds, stickers, stickers_to_place>>
    /\ UNCHANGED <<treatments, profile, points_px, save_path, saved, output>>
    /\ UNCHANGED accessVars
    /\ UNCHANGED drawVars

\* the loop over stickers_to_place is over
PlaceDone ==
    /\ pc = "selected"
    /\ place_idx = Len(stickers_to_place)
    /\ pc' = "placed"
    /\ UNCHANGED <<entries, hours, now, result, result2, status_ranges, filtered_ranges,
                   thresholds, stickers, stickers_to_place, place_idx, occupied_areas>>
    /\ UNCHANGED renderVars
    /\ UNCHANGED accessVars
    /\ UNCHANGED drawVars

\* the data-source collaborator hands over one more treatment
AddTreatment(domain, max) ==
    /\ pc = "input"
    /\ Len(treatments) < max
    /\ \E t \in domain : treatments' = Append(treatments, t)
    /\ UNCHANGED <<entries, hours, now, result, result2, status_ranges, filtered_ranges,
                   thresholds, stickers, stickers_to_place, place_idx, occupied_areas, pc>>
    /\ UNCHANGED <<profile, points_px, placements, save_path, saved, output>>
    /\ UNCHANGED accessVars
    /\ UNCHANGED drawVars

\* an error that comes with the bytes of a chart
FailureWithRaster(msg) == [err |-> msg, raster |-> TRUE]

\* Err(anyhow!(msg)): an error and no bytes
Failure(msg) == [err |-> msg, raster |-> FALSE]

\* the head of draw_graph: the early returns on an empty entries slice and on
\* a missing default profile, then filter_and_clean_entries, whose error is
\* returned as "No entries found within the requested .. hour time range"
DrawGraphBegin(hourSet) ==
    /\ pc = "input"
    /\ \E h \in hourSet :
         /\ hours' = h
         /\ IF entries = <<>>
            THEN /\ output' = Failure("No entries provided")
                 /\ result' = result
                 /\ pc' = "done"
            ELSE IF profile = None
            THEN /\ output' = Failure("Default profile not found")
                 /\ result' = result
                 /\ pc' = "done"
            ELSE /\ result' = FilterAndCleanEntries(entries, h, now)
                 /\ IF result'.err = "none"
                    THEN output' = output /\ pc' = "plotting"
                    ELSE /\ output' = Failure("No entries found within the requested time range")
                         /\ pc' = "done"
    /\ UNCHANGED <<entries, now, result2, status_ranges, filtered_ranges,
                   thresholds, stickers, stickers_to_place, place_idx, occupied_areas>>
    /\ UNCHANGED <<treatments, profile, points_px, placements, save_path, saved>>
    /\ UNCHANGED accessVars
    /\ UNCHANGED drawVars

\* the `for entry in &entries` loop that fills points_px
PlotPoints ==
    /\ pc = "plotting"
    /\ points_px' = PointsPx(result.list, now, hours, PrefOf(profile[1]))
    /\ pc' = "reconciled"
    /\ UNCHANGED <<entries, hours, now, result, result2, status_ranges, filtered_ranges,
                   thresholds, stickers, stickers_to_place, place_idx, occupied_areas>>
    /\ UNCHANGED <<treatments, profile, placements, save_path, saved, output>>
    /\ UNCHANGED accessVars
    /\ UNCHANGED drawVars

\* the tail of draw_graph: the canvas is encoded to PNG bytes in memory, then
\* written to save_path when there is one; a failed std::fs::write is
\* returned as an error
FinishGraph ==
    /\ pc = "placed"
    /\ IF save_path = None
       THEN /\ output' = [err |-> "none", raster |-> TRUE]
            /\ saved' = saved
       ELSE \E write_ok \in BOOLEAN :
              /\ saved' = write_ok
              /\ output' = IF write_ok THEN [err |-> "none", raster |-> TRUE]
                           ELSE Failure("Failed to save PNG")
    /\ pc' = "done"
    /\ UNCHANGED <<entries, hours, now, result, result2, status_ranges, filtered_ranges,
                   thresholds, stickers, stickers_to_place, place_idx, occupied_areas>>
    /\ UNCHANGED <<treatments, profile, points_px, placements, save_path>>
    /\ UNCHANGED accessVars
    /\ UNCHANGED drawVars

NextReconcile ==
    \/ AddEntry(ReconcileDomain, MaxLen)
    \/ Reconcile(HoursSet)
    \/ ReReconcile

SpecReconcile == Init /\ [][NextReconcile]_vars

NextAnnotate ==
    \/ AddEntry(AnnotateDomain, MaxAnnotateLen)
    \/ Reconcile({3})
    \/ IdentifyRanges({<<70000, 180000>>})
    \/ FilterRanges
    \/ SelectByRange
    \/ SelectByRangeExit
    \/ TopUp
    \/ TopUpExit
    \/ PlaceSticker({})
    \/ PlaceDone

SpecAnnotate == InitWith(StickerLists) /\ [][NextAnnotate]_vars

\* a render request: the stickers of the user, the profile found and the
\* save_path of the call
InitRender ==
    /\ entries = <<>>
    /\ hours = 0
    /\ now = NowMs
    /\ result = NoResult
    /\ result2 = NoResult
    /\ status_ranges = <<>>
    /\ filtered_ranges = <<>>
    /\ thresholds = <<0, 0>>
    /\ stickers \in RenderStickerLists
    /\ stickers_to_place = <<>>
    /\ place_idx = 0
    /\ occupied_areas = <<>>
    /\ pc = "input"
    /\ treatments = <<>>
    /\ \E rq \in RenderRequests : profile = rq.profile /\ save_path = rq.save_path
    /\ points_px = <<>>
    /\ placements = <<>>
    /\ saved = FALSE
    /\ output = NoOutput
    /\ NoAccess
    /\ NothingDrawn

NextRender ==
    \/ AddEntry(RenderDomain, MaxPlotLen)
    \/ AddTreatment(TreatmentDomain, MaxTreatments)
    \/ DrawGraphBegin({3})
    \/ PlotPoints
    \/ IdentifyRanges({<<70000, 180000>>})
    \/ FilterRanges
    \/ SelectByRange
    \/ SelectByRangeExit
    \/ TopUp
    \/ TopUpExit
    \/ PlaceSticker(FlakyImages)
    \/ PlaceDone
    \/ FinishGraph

SpecRender == InitRender /\ [][NextRender]_vars

\* the projection alone: samples, the head of draw_graph and points_px
NextProject ==
    \/ AddEntry(ProjectDomain, MaxProjectLen)
    \/ DrawGraphBegin(HoursSet)
    \/ PlotPoints

\* samples for a profile in mg/dL or in mmol/L
InitProject ==
    /\ entries = <<>>
    /\ hours = 0
    /\ now = NowMs
    /\ result = NoResult
    /\ result2 = NoResult
    /\ status_ranges = <<>>
    /\ filtered_ranges = <<>>
    /\ thresholds = <<0, 0>>
    /\ stickers = <<>>
    /\ stickers_to_place = <<>>
    /\ place_idx = 0
    /\ occupied_areas = <<>>
    /\ pc = "input"
    /\ treatments = <<>>
    /\ profile \in {Some("mg/dl"), Some("mmol")}
    /\ save_path = None
    /\ points_px = <<>>
    /\ placements = <<>>
    /\ saved = FALSE
    /\ output = NoOutput
    /\ NoAccess
    /\ NothingDrawn

SpecProject == InitProject /\ [][NextProject]_vars

\* a call of clean_entries on the entries handed over
CleanEntriesCall ==
    /\ pc = "input"
    /\ result' = CleanEntries(entries)
    /\ pc' = "cleaned"
    /\ UNCHANGED <<entries, hours, now, result2, status_ranges, filtered_ranges,
                   thresholds, stickers, stickers_to_place, place_idx, occupied_areas>>
    /\ UNCHANGED renderVars
    /\ UNCHANGED accessVars
    /\ UNCHANGED drawVars

NextClean ==
    \/ AddEntry(CleanDomain, MaxCleanLen)
    \/ CleanEntriesCall

SpecClean == Init /\ [][NextClean]_vars

----------------------------------------------------------------------------
(* Access to another user's data: src/commands/{allow,set_visibility,bg,graph}.rs,
   src/utils/database.rs *)

\* the pipeline variables, which the commands on the owner's row leave alone
pipelineVars == <<entries, hours, now, result, result2, status_ranges, filtered_ranges,
                  thresholds, stickers, stickers_to_place, place_idx, occupied_areas, pc,
                  treatments, profile, points_px, placements, save_path, saved, output>>

\* Discord ids: the owner of the data and two other users
Owner == 1
OtherUsers == {2, 3}

\* Vec::contains
Contains(people, id) == \E k \in 1..Len(people) : people[k] = id

RECURSIVE Retain(_, _)
\* allowed_people.retain(|&id| id != user_to_remove_id)
Retain(people, id) ==
    IF people = <<>> THEN <<>>
    ELSE IF Head(people) = id THEN Retain(Tail(people), id)
    ELSE <<Head(people)>> \o Retain(Tail(people), id)

\* bg.rs: can_access
CanAccessBg(target_user_id, command_user_id, private, people) ==
    IF target_user_id = command_user_id THEN TRUE
    ELSE IF ~private THEN TRUE
    ELSE Contains(people, command_user_id)

\* graph.rs: the branches of `if let Some(target) = target_user` that go on
\* to fetch the target's data
CanAccessGraph(command_user_id, private, people) ==
    IF ~private THEN TRUE ELSE Contains(people, command_user_id)

Idle == [cmd |-> "idle"]

\* /allow by the owner, up to the await after get_user_info in
\* add_allowed_user / remove_allowed_user: Ok(false) when there is nothing to
\* change, else the new list is built from the row just read and waits to be
\* written
AllowCommand(slot) ==
    /\ tasks[slot] = Idle
    /\ \E action \in {"add", "remove"}, target_user \in OtherUsers :
         LET listed == Contains(allowed_people, target_user) IN
         IF action = "add"
         THEN /\ revoked' = revoked \ {target_user}
              /\ tasks' = IF listed THEN tasks
                          ELSE [tasks EXCEPT ![slot] =
                                   [cmd |-> "add", user |-> target_user,
                                    allowed_people |-> Append(allowed_people, target_user)]]
         ELSE /\ revoked' = revoked
              /\ tasks' = IF ~listed THEN tasks
                          ELSE [tasks EXCEPT ![slot] =
                                   [cmd |-> "remove", user |-> target_user,
                                    allowed_people |-> Retain(allowed_people, target_user)]]
    /\ UNCHANGED <<is_private, allowed_people, last_request>>
    /\ UNCHANGED pipelineVars
    /\ UNCHANGED drawVars

\* the `UPDATE users SET allowed_people = ? WHERE discord_id = ?` of
\* add_allowed_user / remove_allowed_user, which then return Ok(true)
UpdateAllowedPeople(slot) ==
    /\ tasks[slot].cmd \in {"add", "remove"}
    /\ allowed_people' = tasks[slot].allowed_people
    /\ revoked' = IF tasks[slot].cmd = "remove"
                  THEN revoked \cup {tasks[slot].user}
                  ELSE revoked \ {tasks[slot].user}
    /\ tasks' = [tasks EXCEPT ![slot] = Idle]
    /\ UNCHANGED <<is_private, last_request>>
    /\ UNCHANGED pipelineVars
    /\ UNCHANGED drawVars

\* /set-visibility by the owner, up to the await after get_user_info: nothing
\* to do when the visibility is the one asked for, else a NightscoutInfo is
\* built from the row just read and waits to be written
SetVisibility(slot) ==
    /\ tasks[slot] = Idle
    /\ \E private \in BOOLEAN :
         tasks' = IF is_private = private THEN tasks
                  ELSE [tasks EXCEPT ![slot] =
                           [cmd |-> "visibility", is_private |-> private,
                            allowed_people |-> allowed_people]]
    /\ UNCHANGED <<is_private, allowed_people, revoked, last_request>>
    /\ UNCHANGED pipelineVars
    /\ UNCHANGED drawVars

\* Database::update_user: the whole row is written from the NightscoutInfo
UpdateUser(slot) ==
    /\ tasks[slot].cmd = "visibility"
    /\ is_private' = tasks[slot].is_private
    /\ allowed_people' = tasks[slot].allowed_people
    /\ tasks' = [tasks EXCEPT ![slot] = Idle]
    /\ UNCHANGED <<revoked, last_request>>
    /\ UNCHANGED pipelineVars
    /\ UNCHANGED drawVars

\* what a request saw and how it was answered
Request(command_user_id, cmd, served) ==
    [requester |-> command_user_id, cmd |-> cmd, served |-> served,
     is_private |-> is_private,
     listed |-> Contains(allowed_people, command_user_id),
     revoked |-> command_user_id \in revoked]

\* /bg user:owner by another user: get_user_info, then can_access
BgRequest ==
    /\ \E command_user_id \in OtherUsers :
         last_request' = Request(command_user_id, "bg",
                                 CanAccessBg(Owner, command_user_id,
                                             is_private, allowed_people))
    /\ UNCHANGED <<is_private, allowed_people, tasks, revoked>>
    /\ UNCHANGED pipelineVars
    /\ UNCHANGED drawVars

\* /graph user:owner by another user: get_user_info, then the privacy test
GraphRequest ==
    /\ \E command_user_id \in OtherUsers :
         last_request' = Request(command_user_id, "graph",
                                 CanAccessGraph(command_user_id,
                                                is_private, allowed_people))
    /\ UNCHANGED <<is_private, allowed_people, tasks, revoked>>
    /\ UNCHANGED pipelineVars
    /\ UNCHANGED drawVars

\* the owner's row after setup: private or public as the button says
InitAccess ==
    /\ entries = <<>>
    /\ hours = 0
    /\ now = NowMs
    /\ result = NoResult
    /\ result2 = NoResult
    /\ status_ranges = <<>>
    /\ filtered_ranges = <<>>
    /\ thresholds = <<0, 0>>
    /\ stickers = <<>>
    /\ stickers_to_place = <<>>
    /\ place_idx = 0
    /\ occupied_areas = <<>>
    /\ pc = "input"
    /\ treatments = <<>>
    /\ profile = Some("mg/dl")
    /\ points_px = <<>>
    /\ placements = <<>>
    /\ save_path = None
    /\ saved = FALSE
    /\ output = NoOutput
    /\ is_private \in BOOLEAN
    /\ allowed_people = <<>>
    /\ tasks = NoTasks
    /\ revoked = {}
    /\ last_request = NoRequest
    /\ NothingDrawn

NextAccess ==
    \/ \E slot \in 1..MaxTasks : AllowCommand(slot)
    \/ \E slot \in 1..MaxTasks : UpdateAllowedPeople(slot)
    \/ \E slot \in 1..MaxTasks : SetVisibility(slot)
    \/ \E slot \in 1..MaxTasks : UpdateUser(slot)
    \/ BgRequest
    \/ GraphRequest

SpecAccess == InitAccess /\ [][NextAccess]_vars

----------------------------------------------------------------------------
(* Time labels of the x axis: src/utils/graph/mod.rs, label selection *)

\* max_x_labels
MaxXLabels == 6

\* min_label_distance
MinLabelDistance == 160

\* time_interval, in seconds: 0.5, 1, 2 or 3 hours
TimeIntervalSecs(hrs) ==
    IF hrs <= 3 THEN 1800
    ELSE IF hrs <= 6 THEN 3600
    ELSE IF hrs <= 12 THEN 7200
    ELSE 3 * 3600

RECURSIVE LabelLoop(_, _, _, _, _, _)
\* `for entry in entries.iter().rev()`: from index i down, an entry is
\* labelled when it is the first or at least time_interval after the last
\* labelled one
LabelLoop(es, i, label_entries, last_labeled_secs, clock, hrs) ==
    IF i = 0 THEN label_entries
    ELSE LET entry_secs == TimestampSecs(MillisToUserTimezone(es[i], clock)) IN
         IF label_entries = <<>>
               \/ entry_secs - last_labeled_secs >= TimeIntervalSecs(hrs)
         THEN LabelLoop(es, i - 1, Append(label_entries, es[i]), entry_secs, clock, hrs)
         ELSE LabelLoop(es, i - 1, label_entries, last_labeled_secs, clock, hrs)

\* a selection that leaves entries.first() to the loop
WithoutNewestEntry(label_entries, es, clock) == label_entries

\* `if let Some(newest_entry) = entries.first()`: it goes to the front of
\* label_entries unless a labelled entry has its instant
WithNewestEntry(label_entries, es, clock) ==
    IF es = <<>> THEN label_entries
    ELSE IF \A k \in 1..Len(label_entries) :
               MillisToUserTimezone(label_entries[k], clock)
                   # MillisToUserTimezone(es[1], clock)
         THEN <<es[1]>> \o label_entries
         ELSE label_entries

RECURSIVE EveryStep(_, _, _)
\* `for i in (step..label_entries.len() - step).step_by(step)`, i counting from 0
EveryStep(label_entries, i, step) ==
    IF i >= Len(label_entries) - step THEN <<>>
    ELSE <<label_entries[i + 1]>> \o EveryStep(label_entries, i + step, step)

\* `if label_entries.len() > max_x_labels`: the first, every step-th of the
\* indices step .. len - step, and the last
ThinLabels(label_entries) ==
    IF Len(label_entries) > MaxXLabels
    THEN LET step == Len(label_entries) \div MaxXLabels IN
         <<label_entries[1]>> \o EveryStep(label_entries, step, step)
             \o <<label_entries[Len(label_entries)]>>
    ELSE label_entries

RECURSIVE SpaceLabels(_, _, _, _, _)
\* `for (i, &entry) in label_entries.iter().enumerate()`: a label is taken
\* when it is min_label_distance from the last one taken; the last label is
\* also taken when two are there already, in place of the last one taken if
\* that one is too close
SpaceLabels(label_entries, i, final, clock, hrs) ==
    IF i > Len(label_entries) THEN final
    ELSE LET x_center ==
                 CalculateXPosition(MillisToUserTimezone(label_entries[i], clock), clock, hrs)
             last_x_center ==
                 CalculateXPosition(MillisToUserTimezone(final[Len(final)], clock), clock, hrs)
             is_last == i = Len(label_entries)
             should_include ==
                 IF final = <<>> THEN TRUE
                 ELSE Abs(x_center - last_x_center) >= MinLabelDistance
         IN  IF should_include \/ (is_last /\ Len(final) >= 2)
             THEN LET kept == IF is_last /\ final # <<>>
                                    /\ Abs(x_center - last_x_center) < MinLabelDistance
                              THEN SubSeq(final, 1, Len(final) - 1)
                              ELSE final
                  IN  SpaceLabels(label_entries, i + 1,
                                  Append(kept, label_entries[i]), clock, hrs)
             ELSE SpaceLabels(label_entries, i + 1, final, clock, hrs)

\* the label selection of draw_graph
FinalLabelEntries(es, clock, hrs) ==
    LET label_entries ==
            ThinLabels(WithNewestEntry(LabelLoop(es, Len(es), <<>>, 0, clock, hrs),
                                       es, clock))
    IN  SpaceLabels(label_entries, 1, <<>>, clock, hrs)

\* the minutes before the clock reading of the k-th sample of a timeline:
\* 5, 10, 25 and then every 30 minutes
LabelMinutesAgo(k) == IF k = 1 THEN 5 ELSE IF k = 2 THEN 10 ELSE 25 + 30 * (k - 3)

LabelSample(k) ==
    MkEntry(None, 100000 + 1000 * k, None, Some(NowMs - LabelMinutesAgo(k) * MsPerMinute),
            None, NoDateString)

RECURSIVE TimelineFrom(_, _)
\* the samples of S, newest first
TimelineFrom(S, k) ==
    IF k > MaxLabelLen THEN <<>>
    ELSE (IF k \in S THEN <<LabelSample(k)>> ELSE <<>>) \o TimelineFrom(S, k + 1)

Reverse(s) == [k \in 1..Len(s) |-> s[Len(s) + 1 - k]]

\* what Nightscout hands over: some samples of the timeline, newest first, or
\* the same oldest first
LabelInputs ==
    { TimelineFrom(S, 1) : S \in SUBSET (1..MaxLabelLen) }
        \cup { Reverse(TimelineFrom(S, 1)) : S \in SUBSET (1..MaxLabelLen) }

LabelHours == {3, 4}

\* the label selection between the reconciliation and the curve
SelectLabels ==
    /\ pc = "plotting"
    /\ final_label_entries' = FinalLabelEntries(result.list, now, hours)
    /\ pc' = "labelled"
    /\ UNCHANGED <<entries, hours, now, result, result2, status_ranges, filtered_ranges,
                   thresholds, stickers, stickers_to_place, place_idx, occupied_areas>>
    /\ UNCHANGED renderVars
    /\ UNCHANGED accessVars
    /\ UNCHANGED <<user_settings, markers, search>>

InitLabel ==
    /\ entries \in LabelInputs
    /\ hours = 0
    /\ now = NowMs
    /\ result = NoResult
    /\ result2 = NoResult
    /\ status_ranges = <<>>
    /\ filtered_ranges = <<>>
    /\ thresholds = <<0, 0>>
    /\ stickers = <<>>
    /\ stickers_to_place = <<>>
    /\ place_idx = 0
    /\ occupied_areas = <<>>
    /\ pc = "input"
    /\ treatments = <<>>
    /\ profile = Some("mg/dl")
    /\ points_px = <<>>
    /\ placements = <<>>
    /\ save_path = None
    /\ saved = FALSE
    /\ output = NoOutput
    /\ NoAccess
    /\ NothingDrawn

NextLabel ==
    \/ DrawGraphBegin(LabelHours)
    \/ SelectLabels

SpecLabel == InitLabel /\ [][NextLabel]_vars

----------------------------------------------------------------------------
(* Treatment markers: src/utils/graph/mod.rs, the treatment drawing loop *)

\* Treatment, with what the drawing loop reads: amounts in thousandths, the
\* glucose string as what parse::<f32>() makes of it
MkDose(date, insulin, carbs, glucose, glucose_type, type_) ==
    [created_at |-> None, date |-> date, mills |-> None, insulin |-> insulin,
     carbs |-> carbs, glucose |-> glucose, glucose_type |-> glucose_type,
     type_ |-> type_]

\* Treatment::is_insulin
IsInsulin(t) == t.insulin # None /\ UnwrapOr(t.insulin, 0) > 0

\* Treatment::is_carbs
IsCarbs(t) == t.carbs # None /\ UnwrapOr(t.carbs, 0) > 0

\* Treatment::is_glucose_reading
IsGlucoseReading(t) == t.glucose # None /\ t.glucose_type = Some("Finger")

\* is_smb_type || insulin_amount <= user_settings.microbolus_threshold
IsMicrobolus(t, settings) ==
    t.type_ = Some("SMB") \/ UnwrapOr(t.insulin, 0) <= settings.microbolus_threshold

Marker(kind, k) == [kind |-> kind, treatment |-> k]

\* the markers of one treatment: `continue` when it has no usable time or is
\* a hidden microbolus, else the insulin, carbs and glucose markers it calls for
MarkersOf(t, k, settings, clock) ==
    IF TreatmentTime(t, clock) = None THEN <<>>
    ELSE IF IsInsulin(t) /\ IsMicrobolus(t, settings) /\ ~settings.display_microbolus
    THEN <<>>
    ELSE (IF IsInsulin(t) THEN <<Marker("insulin", k)>> ELSE <<>>)
         \o (IF IsCarbs(t) THEN <<Marker("carbs", k)>> ELSE <<>>)
         \o (IF IsGlucoseReading(t) /\ t.glucose[1].ok
             THEN <<Marker("glucose", k)>> ELSE <<>>)

RECURSIVE DrawTreatmentsFrom(_, _, _, _)
\* `for treatment in treatments`, from index k on
DrawTreatmentsFrom(ts, k, settings, clock) ==
    IF k > Len(ts) THEN <<>>
    ELSE MarkersOf(ts[k], k, settings, clock)
             \o DrawTreatmentsFrom(ts, k + 1, settings, clock)

\* the glucose string of a finger-stick reading
Glucose(v) == Some([ok |-> TRUE, value |-> v])

\* boluses and meals 40 minutes before the clock reading: a small bolus with
\* carbs, a small bolus with a finger-stick reading, an SMB, a meal bolus,
\* carbs alone, and a treatment without any time
DoseDomain ==
    { MkDose(Some(NowMs - 40 * MsPerMinute), Some(300), Some(20000), None, None, None),
      MkDose(Some(NowMs - 40 * MsPerMinute), Some(300), None, Glucose(110000),
             Some("Finger"), None),
      MkDose(Some(NowMs - 40 * MsPerMinute), Some(2000), None, None, None, Some("SMB")),
      MkDose(Some(NowMs - 40 * MsPerMinute), Some(4000), Some(45000), None, None, None),
      MkDose(Some(NowMs - 40 * MsPerMinute), None, Some(15000), None, None, None),
      MkDose(None, Some(4000), None, None, None, None) }

\* display_microbolus on or off, the threshold at its default
SettingsDomain ==
    { [microbolus_threshold |-> 500, display_microbolus |-> d] : d \in BOOLEAN }

\* the treatment drawing loop of draw_graph
DrawTreatments ==
    /\ pc = "reconciled"
    /\ markers' = DrawTreatmentsFrom(treatments, 1, user_settings, now)
    /\ pc' = "marked"
    /\ UNCHANGED <<entries, hours, now, result, result2, status_ranges, filtered_ranges,
                   thresholds, stickers, stickers_to_place, place_idx, occupied_areas>>
    /\ UNCHANGED renderVars
    /\ UNCHANGED accessVars
    /\ UNCHANGED <<final_label_entries, user_settings, search>>

InitMarkers ==
    /\ entries = <<>>
    /\ hours = 0
    /\ now = NowMs
    /\ result = NoResult
    /\ result2 = NoResult
    /\ status_ranges = <<>>
    /\ filtered_ranges = <<>>
    /\ thresholds = <<0, 0>>
    /\ stickers = <<>>
    /\ stickers_to_place = <<>>
    /\ place_idx = 0
    /\ occupied_areas = <<>>
    /\ pc = "input"
    /\ treatments = <<>>
    /\ profile = Some("mg/dl")
    /\ points_px = <<>>
    /\ placements = <<>>
    /\ save_path = None
    /\ saved = FALSE
    /\ output = NoOutput
    /\ NoAccess
    /\ final_label_entries = <<>>
    /\ user_settings \in SettingsDomain
    /\ markers = <<>>
    /\ search = NoSearch

\* a render without stickers: samples, treatments, the curve, the markers
NextMarkers ==
    \/ AddEntry(RenderDomain, MaxPlotLen)
    \/ AddTreatment(DoseDomain, MaxDoses)
    \/ DrawGraphBegin({3})
    \/ PlotPoints
    \/ DrawTreatments

SpecMarkers == InitMarkers /\ [][NextMarkers]_vars

----------------------------------------------------------------------------
(* find_sticker_position, one iteration of its attempt loop at a time:
   src/utils/graph/stickers.rs *)

\* a loop that goes on until a candidate is accepted
BudgetLeftAlways(attempts) == TRUE

\* `for attempts in 0..config.max_attempts`: the loop has an iteration left
BudgetLeft(attempts) == attempts < MaxAttempts

\* the sticker loop of draw_graph calls find_sticker_position, which draws
\* target_entry_idx
SearchBegin ==
    /\ pc = "selected"
    /\ place_idx < Len(stickers_to_place)
    /\ \E idx \in TargetEntryIdxs(stickers_to_place[place_idx + 1].range, result.list) :
         search' = [target_entry_idx |-> idx, attempts |-> 0]
    /\ pc' = "searching"
    /\ UNCHANGED <<entries, hours, now, result, result2, status_ranges, filtered_ranges,
                   thresholds, stickers, stickers_to_place, place_idx, occupied_areas>>
    /\ UNCHANGED renderVars
    /\ UNCHANGED accessVars
    /\ UNCHANGED <<final_label_entries, user_settings, markers>>

\* one iteration of the attempt loop: a candidate is drawn and either
\* returned, recorded in occupied_areas and drawn, or rejected; the locals of
\* find_sticker_position end with its return
SearchAttempt ==
    /\ pc = "searching"
    /\ BudgetLeft(search.attempts)
    /\ LET pref == PrefOf(profile[1])
           pts == PointsPx(result.list, now, hours, pref)
           treatment_positions ==
               TreatmentPositions(treatments, result.list, now, hours, pref)
           range == stickers_to_place[place_idx + 1].range
           target == IF range # None THEN pts[search.target_entry_idx + 1] ELSE <<0, 0>>
       IN  \E c \in Candidates(range, target, StageOf(search.attempts)) :
             IF Accepted(c, pts, occupied_areas, treatment_positions)
             THEN /\ occupied_areas' = RecordedAreas(occupied_areas, Some(c))
                  /\ placements' = Append(placements, [found |-> TRUE, drawn |-> TRUE])
                  /\ place_idx' = place_idx + 1
                  /\ search' = NoSearch
                  /\ pc' = "selected"
             ELSE /\ search' = [search EXCEPT !.attempts = search.attempts + 1]
                  /\ UNCHANGED <<occupied_areas, placements, place_idx, pc>>
    /\ UNCHANGED <<entries, hours, now, result, result2, status_ranges, filtered_ranges,
                   thresholds, stickers, stickers_to_place>>
    /\ UNCHANGED <<treatments, profile, points_px, save_path, saved, output>>
    /\ UNCHANGED accessVars
    /\ UNCHANGED <<final_label_entries, user_settings, markers>>

\* the attempt loop is over: find_sticker_position returns None and the
\* sticker is skipped
SearchExhausted ==
    /\ pc = "searching"
    /\ ~BudgetLeft(search.attempts)
    /\ occupied_areas' = RecordedAreas(occupied_areas, None)
    /\ placements' = Append(placements, [found |-> FALSE, drawn |-> FALSE])
    /\ place_idx' = place_idx + 1
    /\ search' = NoSearch
    /\ pc' = "selected"
    /\ UNCHANGED <<entries, hours, now, result, result2, status_ranges, filtered_ranges,
                   thresholds, stickers, stickers_to_place>>
    /\ UNCHANGED <<treatments, profile, points_px, save_path, saved, output>>
    /\ UNCHANGED accessVars
    /\ UNCHANGED <<final_label_entries, user_settings, markers>>

\* a user with one Any sticker, or with a Low and an Any sticker
SearchStickerLists ==
    { << [id |-> 2, category |-> "Any"] >>,
      << [id |-> 3, category |-> "Low"], [id |-> 2, category |-> "Any"] >> }

NextSearch ==
    \/ AddEntry(AnnotateDomain, MaxSearchLen)
    \/ Reconcile({3})
    \/ IdentifyRanges({<<70000, 180000>>})
    \/ FilterRanges
    \/ SelectByRange
    \/ SelectByRangeExit
    \/ TopUp
    \/ TopUpExit
    \/ SearchBegin
    \/ SearchAttempt
    \/ SearchExhausted
    \/ PlaceDone

SpecSearch == InitWith(SearchStickerLists) /\ [][NextSearch]_vars

----------------------------------------------------------------------------
(* Image acquisition of the sticker loop: draw_sticker and                 *)
(* download_sticker_image, src/utils/graph/stickers.rs and helpers.rs      *)

\* the stickers whose file_name starts with "http": their image is fetched
\* by download_sticker_image; the others are read with image::open
RemoteImages == {1, 2}

\* the head of an iteration of the sticker loop: find_sticker_position is
\* called; a found position is recorded in occupied_areas and draw_sticker is
\* called, a sticker without a position is skipped
FindPosition ==
    /\ pc = "selected"
    /\ place_idx < Len(stickers_to_place)
    /\ LET pref == PrefOf(profile[1])
           pts == PointsPx(result.list, now, hours, pref)
           treatment_positions ==
               TreatmentPositions(treatments, result.list, now, hours, pref)
       IN  \E found \in FindStickerPosition(stickers_to_place[place_idx + 1].range,
                                            result.list, pts, occupied_areas,
                                            treatment_positions) :
             /\ occupied_areas' = RecordedAreas(occupied_areas, found)
             /\ IF found # None
                THEN /\ pc' = "acquiring"
                     /\ UNCHANGED <<placements, place_idx>>
                ELSE /\ placements' = Append(placements,
                                             [found |-> FALSE, drawn |-> FALSE])
                     /\ place_idx' = place_idx + 1
                     /\ pc' = pc
    /\ UNCHANGED <<entries, hours, now, result, result2, status_ranges, filtered_ranges,
                   thresholds, stickers, stickers_to_place>>
    /\ UNCHANGED <<treatments, profile, points_px, save_path, saved, output>>
    /\ UNCHANGED accessVars
    /\ UNCHANGED drawVars

\* draw_sticker is over with draw_ok: the sticker is drawn, or the error is
\* logged by the loop, which goes on
DrawStickerReturns(draw_ok) ==
    /\ placements' = Append(placements, [found |-> TRUE, drawn |-> draw_ok])
    /\ place_idx' = place_idx + 1
    /\ pc' = AfterDrawSticker(draw_ok)
    /\ UNCHANGED <<entries, hours, now, result, result2, status_ranges, filtered_ranges,
                   thresholds, stickers, stickers_to_place, occupied_areas>>
    /\ UNCHANGED <<treatments, profile, points_px, save_path, saved, output>>
    /\ UNCHANGED accessVars
    /\ UNCHANGED drawVars

\* the `image::open(&sticker.file_name)?` branch of draw_sticker: the file is
\* read and decoded, or that fails
OpenImage ==
    /\ pc = "acquiring"
    /\ stickers_to_place[place_idx + 1].sticker.id \notin RemoteImages
    /\ \E draw_ok \in (IF stickers_to_place[place_idx + 1].sticker.id \in FlakyImages
                         THEN BOOLEAN ELSE {TRUE}) :
         DrawStickerReturns(draw_ok)

\* the `download_sticker_image(&sticker.file_name).await?` branch: the
\* awaited reqwest::get(url) and response.bytes() resolve, with an image or
\* with an error (transport, HTTP status, decoding); the step is the remote
\* server's to take
FetchResolves ==
    /\ pc = "acquiring"
    /\ stickers_to_place[place_idx + 1].sticker.id \in RemoteImages
    /\ \E draw_ok \in BOOLEAN : DrawStickerReturns(draw_ok)

\* the steps of the render that are the program's own
RenderSteps ==
    \/ DrawGraphBegin({3})
    \/ PlotPoints
    \/ IdentifyRanges({<<70000, 180000>>})
    \/ FilterRanges
    \/ SelectByRange
    \/ SelectByRangeExit
    \/ TopUp
    \/ TopUpExit
    \/ FindPosition
    \/ OpenImage
    \/ PlaceDone
    \/ FinishGraph

NextAcquire ==
    \/ AddEntry(RenderDomain, MaxPlotLen)
    \/ AddTreatment(TreatmentDomain, MaxTreatments)
    \/ DrawGraphBegin({3})
    \/ PlotPoints
    \/ IdentifyRanges({<<70000, 180000>>})
    \/ FilterRanges
    \/ SelectByRange
    \/ SelectByRangeExit
    \/ TopUp
    \/ TopUpExit
    \/ FindPosition
    \/ OpenImage
    \/ FetchResolves
    \/ PlaceDone
    \/ FinishGraph

\* the task of the render is scheduled as long as it has a step to take; the
\* future of reqwest::get is built without a timeout and nothing makes the
\* remote server answer, so FetchResolves comes with no fairness
SpecAcquire == InitRender /\ [][NextAcquire]_vars /\ WF_vars(RenderSteps)

\* a remote server that answers every request in the end
SpecAcquireAnswered == SpecAcquire /\ WF_vars(FetchResolves)

----------------------------------------------------------------------------
(* Properties of the reconciler *)

Reconciled == pc \in {"reconciled", "rereconciled"}

Cutoff == now - hours * MsPerHour

Instant(e) == MillisToUserTimezone(e, now)

SameKind(a, b) == (a.mbg = None) = (b.mbg = None)

KindValue(e) == IF e.mbg # None THEN e.mbg[1] ELSE e.sgv

\* two samples the reconciler is meant to see as one
DuplicatePair(a, b) ==
    \/ a.id # None /\ a.id = b.id
    \/ /\ SameKind(a, b)
       /\ Abs(Instant(a) - Instant(b)) <= 30000
       /\ Cents(KindValue(a)) = Cents(KindValue(b))

\* C1: no two samples of the list returned by filter_and_clean_entries are
\* duplicates of each other: no shared identifier, and no two samples of the
\* same kind within 30 seconds of each other with values equal at two decimals.
C1_NoDuplicatesRetained ==
    Reconciled =>
        \A i, j \in 1..Len(result.list) :
            i < j => ~DuplicatePair(result.list[i], result.list[j])

StrictlyIncreasing(l) ==
    \A i \in 1..(Len(l) - 1) : Instant(l[i]) < Instant(l[i + 1])

StrictlyDecreasing(l) ==
    \A i \in 1..(Len(l) - 1) : Instant(l[i]) > Instant(l[i + 1])

\* C2 as stated: the list returned by filter_and_clean_entries is strictly
\* time-ordered for every input, out-of-order input included.
C2_AlwaysStrictlyOrdered ==
    Reconciled => StrictlyIncreasing(result.list) \/ StrictlyDecreasing(result.list)

\* C2 as amended: the reconciler keeps the order of its input and does not
\* sort; the returned list is strictly time-ordered, in the direction of the
\* input, whenever the input list is strictly time-ordered.
C2_OrderedWhenInputOrdered ==
    Reconciled =>
        /\ StrictlyIncreasing(entries) => StrictlyIncreasing(result.list)
        /\ StrictlyDecreasing(entries) => StrictlyDecreasing(result.list)

C2_Witness ==
    /\ Reconciled
    /\ Len(entries) >= 3
    /\ StrictlyIncreasing(entries)
    /\ Len(result.list) >= 2
    /\ Len(result.list) < Len(entries)

RECURSIVE IsSubsequence(_, _)
IsSubsequence(small, big) ==
    IF small = <<>> THEN TRUE
    ELSE IF big = <<>> THEN FALSE
    ELSE IF Head(small) = Head(big)
         THEN IsSubsequence(Tail(small), Tail(big))
         ELSE IsSubsequence(small, Tail(big))

\* C3: the returned list is a subsequence of the input (unmodified samples in
\* input order) and holds only samples at or after cutoff = now - window.
C3_SubsequenceWithinWindow ==
    Reconciled =>
        /\ IsSubsequence(result.list, entries)
        /\ \A i \in 1..Len(result.list) : Instant(result.list[i]) >= Cutoff

\* a unique sample older than the cutoff was left out while others were kept
C3_Witness ==
    /\ Reconciled
    /\ \E i \in 1..Len(entries) :
         /\ Instant(entries[i]) < Cutoff
         /\ \A j \in 1..Len(entries) : j # i => ~DuplicatePair(entries[i], entries[j])
         /\ \A k \in 1..Len(result.list) : result.list[k] # entries[i]
    /\ Len(result.list) >= 2

\* C4: reconciling a list that filter_and_clean_entries returned, with the
\* same clock reading and window, returns that list unchanged.
C4_Idempotent ==
    pc = "rereconciled" => result2 = result

C4_Witness ==
    /\ pc = "rereconciled"
    /\ Len(result.list) >= 2
    /\ Len(result.list) < Len(entries)
    /\ result2.err = "none"

\* C5: filter_and_clean_entries fails, with NoEntries, exactly when no input
\* sample lies in the window (the first sample in the window always survives
\* deduplication); otherwise it returns a non-empty list.
C5_NoEntriesIffNothingSurvives ==
    pc \in {"failed", "reconciled", "rereconciled"} =>
        LET surviving == \E i \in 1..Len(entries) : Instant(entries[i]) >= Cutoff IN
        /\ result.err \in {"none", "NoEntries"}
        /\ (result.err = "NoEntries") = ~surviving
        /\ result.err = "NoEntries" => result.list = <<>>
        /\ result.err = "none" => result.list # <<>>

\* the failure for a non-empty input all of whose samples are older than the
\* cutoff
C5_Witness ==
    /\ pc = "failed"
    /\ Len(entries) >= 2
    /\ \A i \in 1..Len(entries) : Instant(entries[i]) < Cutoff
    /\ result.err = "NoEntries"

Sensor(v, t) == MkEntry(None, v, None, Some(t), None, NoDateString)

\* scenario 2 of the specification: 100 at 0 s, 100.04 at 20 s, 100 at 40 s
Scenario2 ==
    << Sensor(100000, TBase), Sensor(100040, TBase + 20000),
       Sensor(100000, TBase + 40000) >>

\* the same with float noise below the second decimal: 100.004 at 20 s
Scenario2Noise ==
    << Sensor(100000, TBase), Sensor(100004, TBase + 20000),
       Sensor(100000, TBase + 40000) >>

\* C6 as stated: of 100 at 0 s, 100.04 at 20 s and 100 at 40 s the second
\* sample is dropped as a duplicate and the third is retained.
C6_Scenario2AsStated ==
    (Reconciled /\ entries = Scenario2) =>
        result.list = << Scenario2[1], Scenario2[3] >>

\* C6 as amended: values are compared at two decimals, so 100.004 at 20 s is a
\* duplicate of 100 at 0 s and is dropped, 100.04 at 20 s is not and is kept;
\* the sample of value 100 at 40 s is retained in both cases.
C6_Scenario2Amended ==
    /\ (Reconciled /\ entries = Scenario2Noise) =>
           result.list = << Scenario2Noise[1], Scenario2Noise[3] >>
    /\ (Reconciled /\ entries = Scenario2) => result.list = Scenario2

C6_Witness ==
    /\ Reconciled
    /\ entries = Scenario2Noise
    /\ Len(result.list) = 2

----------------------------------------------------------------------------
(* Properties of the status segmenter *)

Segmented == pc \in {"identified", "filtered"}

\* the ranges cover 0..n-1 without gap or overlap
Partitions(ranges, n) ==
    /\ Len(ranges) >= 1
    /\ \A k \in 1..Len(ranges) :
         0 <= ranges[k].start /\ ranges[k].start <= ranges[k].end
                              /\ ranges[k].end <= n - 1
    /\ ranges[1].start = 0
    /\ ranges[Len(ranges)].end = n - 1
    /\ \A k \in 1..(Len(ranges) - 1) : ranges[k + 1].start = ranges[k].end + 1

\* C7 as stated: the ranges handed on to select_stickers_to_place, those left
\* by filter_ranges_by_duration, partition the index interval 0..n-1.
C7_HandedOnRangesPartition ==
    pc = "filtered" => Partitions(filtered_ranges, Len(result.list))

\* C7 as amended: the ranges produced by identify_status_ranges partition
\* 0..n-1; the ranges handed on, after the duration filter, lie within 0..n-1,
\* are in index order and do not overlap, but may leave gaps.
C7_IdentifiedRangesPartition ==
    /\ Segmented => Partitions(status_ranges, Len(result.list))
    /\ pc = "filtered" =>
         /\ \A k \in 1..Len(filtered_ranges) :
              /\ 0 <= filtered_ranges[k].start
              /\ filtered_ranges[k].start <= filtered_ranges[k].end
              /\ filtered_ranges[k].end <= Len(result.list) - 1
         /\ \A k \in 1..(Len(filtered_ranges) - 1) :
              filtered_ranges[k].end < filtered_ranges[k + 1].start

\* three ranges, of which the duration filter removed the middle one
C7_Witness ==
    /\ pc = "filtered"
    /\ Len(status_ranges) = 3
    /\ filtered_ranges = << status_ranges[1], status_ranges[3] >>

RangeMillis(r, es) == Instant(es[r.end + 1]) - Instant(es[r.start + 1])

RangeWholeSeconds(r, es) ==
    Abs((Instant(es[r.end + 1]) \div 1000) - (Instant(es[r.start + 1]) \div 1000))

LowRangesKept ==
    \A k \in 1..Len(status_ranges) :
        status_ranges[k].status = "Low" =>
            \E m \in 1..Len(filtered_ranges) : filtered_ranges[m] = status_ranges[k]

\* C8 as stated: after filter_ranges_by_duration no InRange or High range
\* whose duration, end sample time minus start sample time, is shorter than
\* 30 minutes remains; every Low range remains; kept ranges keep their order
\* and indices.
C8_NoShortRangeRemains ==
    pc = "filtered" =>
        /\ \A m \in 1..Len(filtered_ranges) :
             filtered_ranges[m].status # "Low" =>
                 RangeMillis(filtered_ranges[m], result.list) >= 30 * MsPerMinute
        /\ LowRangesKept
        /\ IsSubsequence(filtered_ranges, status_ranges)

\* C8 as amended: the duration is the absolute difference of the two sample
\* times, each taken in whole seconds; no InRange or High range of which that
\* difference is under 1800 seconds remains, every Low range remains, and
\* kept ranges keep their order and indices.
C8_NoShortRangeRemainsWholeSeconds ==
    pc = "filtered" =>
        /\ \A m \in 1..Len(filtered_ranges) :
             filtered_ranges[m].status # "Low" =>
                 RangeWholeSeconds(filtered_ranges[m], result.list) >= 30 * 60
        /\ LowRangesKept
        /\ IsSubsequence(filtered_ranges, status_ranges)

\* a short Low range kept, a short High or InRange range removed, and a
\* High or InRange range of at least half an hour kept
C8_Witness ==
    /\ pc = "filtered"
    /\ \E m \in 1..Len(filtered_ranges) :
         /\ filtered_ranges[m].status = "Low"
         /\ RangeWholeSeconds(filtered_ranges[m], result.list) < 30 * 60
    /\ \E m \in 1..Len(filtered_ranges) : filtered_ranges[m].status # "Low"
    /\ Len(filtered_ranges) < Len(status_ranges)

\* C9: every sample inside a range of identify_status_ranges classifies to the
\* range's status (Low below the low threshold, High above the high one,
\* InRange otherwise, the thresholds themselves included), and adjacent ranges
\* differ in status.
C9_RangesAreMaximalRuns ==
    Segmented =>
        /\ \A k \in 1..Len(status_ranges) :
             \A i \in status_ranges[k].start..status_ranges[k].end :
                 LET sgv == result.list[i + 1].sgv IN
                 status_ranges[k].status =
                     (IF sgv < thresholds[1] THEN "Low"
                      ELSE IF sgv > thresholds[2] THEN "High" ELSE "InRange")
        /\ \A k \in 1..(Len(status_ranges) - 1) :
             status_ranges[k].status # status_ranges[k + 1].status

\* an InRange run of two samples, one of them exactly at a threshold, between
\* other ranges
C9_Witness ==
    /\ Segmented
    /\ Len(status_ranges) >= 2
    /\ \E k \in 1..Len(status_ranges) :
         /\ status_ranges[k].status = "InRange"
         /\ status_ranges[k].end > status_ranges[k].start
         /\ \E i \in status_ranges[k].start..status_ranges[k].end :
              result.list[i + 1].sgv \in {thresholds[1], thresholds[2]}

----------------------------------------------------------------------------
(* Properties of sticker selection *)

\* C10: whatever stickers are available and whatever the status ranges, at
\* most 3 stickers are selected, and so at most 3 are placed in one render.
C10_AtMostThreeStickers ==
    /\ Len(stickers_to_place) <= 3
    /\ Len(occupied_areas) <= Len(stickers_to_place)
    /\ Len(occupied_areas) <= 3

\* a render with more than three stickers on offer and several ranges that
\* selected three stickers and placed all of them
C10_Witness ==
    /\ pc = "placed"
    /\ Len(stickers) > 3
    /\ Len(filtered_ranges) >= 2
    /\ Len(stickers_to_place) = 3
    /\ Len(occupied_areas) = 3

----------------------------------------------------------------------------
(* Properties of the sticker placement and of the render *)

Distance2(a, b) == Sq(a[1] - b[1]) + Sq(a[2] - b[2])

\* C11: within one render every two accepted placements are non-overlapping:
\* the distance between their centres is at least the sum of their radii,
\* whatever the order in which the stickers were placed.
C11_PlacementsDoNotOverlap ==
    \A i, j \in 1..Len(occupied_areas) :
        i < j => Distance2(occupied_areas[i], occupied_areas[j])
                     >= Sq(occupied_areas[i][3] + occupied_areas[j][3])

\* three stickers are placed, the last of them left of the first
C11_Witness ==
    /\ pc = "placed"
    /\ Len(occupied_areas) = 3
    /\ occupied_areas[3][1] < occupied_areas[1][1]

\* the render has placed stickers on the reconciled samples
Placing == pc \in {"selected", "placed"} /\ result.err = "none" /\ profile # None

RenderPref == PrefOf(profile[1])

RenderPoints == PointsPx(result.list, now, hours, RenderPref)

\* C12: no accepted placement centre lies closer than the curve-avoidance
\* distance to any plotted sample point, nor closer than the
\* treatment-avoidance distance to any treatment or calibration marker.
C12_PlacementsAvoidCurveAndMarkers ==
    Placing =>
        \A k \in 1..Len(occupied_areas) :
            /\ ~TooClose(occupied_areas[k][1], occupied_areas[k][2], RenderPoints,
                         CurveAvoidanceDistance)
            /\ ~TooClose(occupied_areas[k][1], occupied_areas[k][2],
                         MarkerAnchors(treatments, result.list, now, hours, RenderPref),
                         TreatmentAvoidanceDistance)

\* draw_graph has returned after its sticker loop
Finished == pc = "done" /\ output.err \in {"none", "Failed to save PNG"}

\* the only error a render returns after its sticker loop is that of writing
\* the copy to save_path
RenderSucceeded ==
    \/ output = [err |-> "none", raster |-> TRUE]
    \/ save_path # None /\ ~saved /\ output.err = "Failed to save PNG"

Skipped(k) == ~placements[k].found

ImageFailed == {k \in 1..Len(placements) : placements[k].found /\ ~placements[k].drawn}
Drawn == {k \in 1..Len(placements) : placements[k].drawn}

\* C14: a failure to fetch or decode the image of one selected sticker skips
\* only that sticker: the render goes through every selected sticker, draws
\* each one that has a position and an image, and returns its raster; with
\* three selected, all with a position, and one failing, two are drawn.
C14_ImageFailureSkipsOnlyThatSticker ==
    pc = "done" /\ ImageFailed # {} =>
        /\ Len(placements) = Len(stickers_to_place)
        /\ RenderSucceeded
        /\ \A k \in 1..Len(placements) :
               k \notin ImageFailed /\ ~Skipped(k) => k \in Drawn
        /\ (Len(stickers_to_place) = 3 /\ Cardinality(ImageFailed) = 1
                /\ \A k \in 1..3 : ~Skipped(k))
               => Cardinality(Drawn) = 2

\* three stickers selected, the image of the first fails, the other two are
\* drawn and the raster is returned
C14_Witness ==
    /\ pc = "done"
    /\ output = [err |-> "none", raster |-> TRUE]
    /\ Len(stickers_to_place) = 3
    /\ ImageFailed = {1}
    /\ Drawn = {2, 3}

\* the fatal errors of draw_graph: no entries at all, no default profile in
\* the profile store, nothing left by filter_and_clean_entries
NoData == entries = <<>> \/ (profile # None /\ result.err \notin {"unset", "none"})
MissingProfile == profile = None

\* C15: a fatal error aborts the whole render: when reconciliation yields no
\* data or the default profile is absent from the profile store, draw_graph
\* returns an error, returns no raster bytes and persists no copy of a chart.
C15_FatalErrorAbortsRender ==
    pc = "done" /\ (NoData \/ MissingProfile) =>
        /\ output.err \notin {"unset", "none"}
        /\ ~output.raster
        /\ ~saved
        /\ points_px = <<>> /\ placements = <<>>

\* a call with a save_path and a profile whose samples are all older than
\* the window
C15_Witness ==
    /\ pc = "done"
    /\ save_path # None
    /\ entries # <<>>
    /\ profile # None
    /\ result.err = "NoEntries"

\* five stickers are available and every pick finds one: the Any pool is not
\* empty
FiveAvailable == Len(stickers) = 5 /\ PoolOf(stickers, "Any") # <<>>

\* there was room for every selected sticker: no search ran out of its
\* attempt budget
AmpleRoom == \A k \in 1..Len(placements) : ~Skipped(k)

----------------------------------------------------------------------------
(* Properties of the projection *)

\* points_px holds the plotted point of every reconciled sample
Projected == pc = "reconciled" /\ Len(points_px) = Len(result.list) /\ points_px # <<>>

X(i) == points_px[i][1]
Y(i) == points_px[i][2]
\* the timestamp of a sample, in the whole seconds the projection counts in
T(i) == TimestampSecs(Instant(result.list[i]))

\* C16: the horizontal projection is affine in time: for any three samples at
\* timestamps t1 < t2 < t3 of one render the slopes (x2 - x1) / (t2 - t1) and
\* (x3 - x2) / (t3 - t2) agree up to the rounding of each x to the pixel
\* (cross-multiplied: the two products differ by less than one pixel times
\* t3 - t1), whatever the number of samples plotted.
C16_ProjectionAffineInTime ==
    Projected =>
        \A i, j, k \in 1..Len(points_px) :
            T(i) < T(j) /\ T(j) < T(k) =>
                Abs((X(j) - X(i)) * (T(k) - T(j)) - (X(k) - X(j)) * (T(j) - T(i)))
                    <= T(k) - T(i)

\* three samples, two of them a minute apart and the third one and a half
\* hours later, plotted in the order they were handed over
C16_Witness ==
    /\ Projected
    /\ Len(points_px) = 3
    /\ T(2) - T(1) = 60
    /\ T(3) - T(2) > 3600
    /\ X(3) - X(2) > 60 * (X(2) - X(1))

\* C17: for every sample of the reconciled sequence the plotted point lies
\* inside the inner plot rectangle: inner_left <= x <= inner_right and
\* inner_top <= y <= inner_bottom.
C17_PointsInsideInnerPlot ==
    Projected =>
        \A i \in 1..Len(points_px) :
            /\ InnerPlotLeft <= X(i) /\ X(i) <= InnerPlotRight
            /\ InnerPlotTop <= Y(i) /\ Y(i) <= InnerPlotBottom

----------------------------------------------------------------------------
(* Properties of clean_entries *)

Cleaned == pc = "cleaned"

HasDateId(e) == GetDateId(e).err = "none"

RECURSIVE WithDateId(_, _)
\* the entries of es whose date-string ID is id, in the order of es
WithDateId(es, id) ==
    IF es = <<>> THEN <<>>
    ELSE IF HasDateId(Head(es)) /\ GetDateId(Head(es)).id = id
         THEN <<Head(es)>> \o WithDateId(Tail(es), id)
         ELSE WithDateId(Tail(es), id)

\* C19: clean_entries returns, in input order, exactly those entries whose
\* date-string ID (the part of the date string after its last '.') equals the
\* date-string ID of the first entry; entries with another date-string ID are
\* left out.
C19_CleanEntriesKeepsFirstDateId ==
    Cleaned /\ entries # <<>> /\ HasDateId(entries[1]) =>
        /\ result.err = "none"
        /\ result.list = WithDateId(entries, GetDateId(entries[1]).id)

\* C20: clean_entries fails with NoEntries when given an empty list and with
\* MissingData when the first entry has no valid date string; in both cases
\* no entries are returned.
C20_CleanEntriesErrors ==
    Cleaned =>
        /\ entries = <<>> => result = Err("NoEntries")
        /\ entries # <<>> /\ ~HasDateId(entries[1]) => result = Err("MissingData")

----------------------------------------------------------------------------
(* Properties of the access to another user's data *)

Served == last_request.cmd # "none" /\ last_request.served

\* C21: a request for the owner's graph or glucose value by another user is
\* served only if, at the time of the request, the owner's profile is public
\* or the requester is in the owner's allowed list; and once
\* remove_allowed_user has succeeded for a user and the owner is private, that
\* user's requests are denied.
C21_ServedOnlyIfPublicOrAllowed ==
    Served =>
        /\ ~last_request.is_private \/ last_request.listed
        /\ last_request.is_private => ~last_request.revoked

----------------------------------------------------------------------------
(* Properties of the time labels *)

Labelled == pc = "labelled"

\* the instant of the most recent reconciled sample
MostRecent == CHOOSE t \in { Instant(result.list[k]) : k \in 1..Len(result.list) } :
                  \A k \in 1..Len(result.list) : Instant(result.list[k]) <= t

\* the instants that get a time label
LabelInstants == { Instant(final_label_entries[k]) : k \in 1..Len(final_label_entries) }

NewestFirst(l) == \A i, j \in 1..Len(l) : i < j => Instant(l[i]) >= Instant(l[j])

LabelX(k) == CalculateXPosition(Instant(final_label_entries[k]), now, hours)

\* C23: every two time labels in the final label set are at least the
\* minimum pixel separation (160 px) apart horizontally.
C23_LabelsApart ==
    Labelled =>
        \A i, j \in 1..Len(final_label_entries) :
            i # j => Abs(LabelX(i) - LabelX(j)) >= MinLabelDistance

----------------------------------------------------------------------------
(* Properties of the treatment markers *)

\* C24: for every treatment with a usable timestamp, the avoidance coordinate
\* handed to find_sticker_position is (time-projected x of the treatment, y of
\* the plotted sample closest in time to the treatment), the anchor point from
\* which the marker of that treatment is drawn.
C24_AvoidanceIsMarkerAnchor ==
    Placing =>
        TreatmentPoints(treatments, result.list, RenderPoints, now, hours, FALSE, 1)
            = TreatmentPoints(treatments, result.list, RenderPoints, now, hours, TRUE, 1)

----------------------------------------------------------------------------
(* Properties of the duplicate detection *)

Retained(e) == \E k \in 1..Len(result.list) : result.list[k] = e

\* the in-window input samples that are absent from the output
Dropped == { i \in 1..Len(entries) :
               InWindow(entries[i], Cutoff, now) /\ ~Retained(entries[i]) }

\* C25: every in-window input sample that is absent from the output of
\* filter_and_clean_entries is a duplicate of some retained sample: it shares
\* an identifier with a retained sample, or it is within 30 seconds of, and
\* equal in kind and value to, a retained sample.
C25_DroppedSamplesAreDuplicates ==
    Reconciled /\ result.err = "none" =>
        \A i \in Dropped :
            \E k \in 1..Len(result.list) : DuplicatePair(entries[i], result.list[k])

\* C26: duplicate detection measures time proximity on the instant that
\* windowing uses for a sample: an in-window sample and a retained sample
\* whose instants differ by more than 30 seconds are never treated as
\* time-and-value duplicates of each other.
C26_DuplicatesCloseOnWindowInstant ==
    Reconciled /\ result.err = "none" =>
        \A i \in 1..Len(entries) :
            InWindow(entries[i], Cutoff, now) =>
                \A k \in 1..Len(result.list) :
                    IsDuplicate(entries[i], <<result.list[k]>>) =>
                        Abs(Instant(entries[i]) - Instant(result.list[k])) <= DupToleranceMs

----------------------------------------------------------------------------
(* Properties of the selection by range *)

\* the ranges select_stickers_to_place was given that a selection may be
\* paired with
RangesOf(selection) ==
    { k \in 1..Len(filtered_ranges) :
        selection.range = Some(<<filtered_ranges[k].start, filtered_ranges[k].end>>) }

\* a sticker of the category of the range, or an Any sticker when the status
\* has several ranges or no sticker of its own
FitsRange(sticker, r) ==
    \/ sticker.category = ToStickerCategory(r.status)
    \/ /\ sticker.category = "Any"
       /\ \/ StatusCount(filtered_ranges, r.status) > 1
          \/ PoolOf(stickers, ToStickerCategory(r.status)) = <<>>

\* C27: every sticker selected by the range-driven loop is paired with one of
\* the given status ranges and is of the category of that range's status or
\* of the Any category, an Any sticker only when that status occurs in more
\* than one range or the status has no sticker of its own; every sticker
\* added by the top-up loop is from the Any pool and has no range.
C27_SelectionFollowsRanges ==
    \A k \in 1..Len(stickers_to_place) :
        LET selection == stickers_to_place[k] IN
        /\ \E i \in 1..Len(stickers) : stickers[i] = selection.sticker
        /\ IF selection.range # None
           THEN \E i \in RangesOf(selection) :
                    FitsRange(selection.sticker, filtered_ranges[i])
           ELSE selection.sticker.category = "Any"

\* two Low ranges and stickers of both kinds: the loop has paired a Low
\* sticker with one range and an Any sticker with another
C27_Witness ==
    /\ pc = "selected"
    /\ Len(stickers_to_place) = 3
    /\ PoolOf(stickers, "Low") # <<>>
    /\ \E k \in 1..3 : /\ stickers_to_place[k].range # None
                       /\ stickers_to_place[k].sticker.category = "Any"
    /\ \E k \in 1..3 : /\ stickers_to_place[k].range # None
                       /\ stickers_to_place[k].sticker.category = "Low"

----------------------------------------------------------------------------
(* Properties of the treatment markers when microboluses are hidden *)

Marked == pc = "marked"

Drew(kind, k) == \E i \in 1..Len(markers) : markers[i] = Marker(kind, k)

\* the treatments the drawing loop has a time for
Timed == { k \in 1..Len(treatments) : TreatmentTime(treatments[k], now) # None }

\* C28: with display_microbolus off, only the insulin marker of a treatment
\* classified as a microbolus (type SMB, or an amount at or below the
\* threshold) is left out: the carbs and glucose-reading markers of the same
\* treatment are still drawn, and so are the insulin markers of the other
\* treatments.
C28_HidingSuppressesOnlyMicrobolusInsulin ==
    Marked /\ ~user_settings.display_microbolus =>
        \A k \in Timed :
            LET t == treatments[k] IN
            /\ Drew("insulin", k) <=> IsInsulin(t) /\ ~IsMicrobolus(t, user_settings)
            /\ Drew("carbs", k) <=> IsCarbs(t)
            /\ Drew("glucose", k) <=> IsGlucoseReading(t) /\ t.glucose[1].ok

----------------------------------------------------------------------------
(* Properties of the attempt loop *)

\* the annotation phase: select_stickers_to_place and the sticker loop
InAnnotation == pc \in {"filtered", "topup", "selected", "searching"}

\* the steps one sticker of the sticker loop can take: the call, the
\* iterations of the attempt loop and the return of none
StepsPerSticker == MaxAttempts + 2

\* the steps the sticker loop can take after select_stickers_to_place
PlacingSteps == MAX_STICKERS_PER_GRAPH * StepsPerSticker + 1

\* a bound on the steps the annotation phase has left
AnnotationRank ==
    CASE pc = "filtered" ->
             PlacingSteps + 2 * (MAX_STICKERS_PER_GRAPH + 1) - Len(stickers_to_place)
      [] pc = "topup" ->
             PlacingSteps + (MAX_STICKERS_PER_GRAPH + 1) - Len(stickers_to_place)
      [] pc = "selected" ->
             (Len(stickers_to_place) - place_idx) * StepsPerSticker + 1
      [] pc = "searching" ->
             (Len(stickers_to_place) - place_idx) * StepsPerSticker - search.attempts
      [] OTHER -> 0

\* the number of candidates find_sticker_position has examined for the
\* sticker at hand stays within its budget, at most three stickers are
\* selected, and the steps left are never fewer than none
WithinBudget ==
    /\ Len(stickers_to_place) <= MAX_STICKERS_PER_GRAPH
    /\ search.attempts <= MaxAttempts
    /\ place_idx <= Len(stickers_to_place)
    /\ AnnotationRank >= 0

\* C29: the annotation phase terminates for every input:
\* select_stickers_to_place makes at most 3 selections, and
\* find_sticker_position examines at most 500 candidates per sticker before it
\* returns a position or none; every step of the phase brings its end nearer.
C29_AnnotationTerminates ==
    /\ []WithinBudget
    /\ [][InAnnotation => AnnotationRank' < AnnotationRank]_vars

\* the search for the third of three selected stickers has used up its whole
\* budget, after the search for an earlier one returned a position
C29_Witness ==
    /\ pc = "searching"
    /\ search.attempts = MaxAttempts
    /\ Len(stickers_to_place) = MAX_STICKERS_PER_GRAPH
    /\ place_idx = MAX_STICKERS_PER_GRAPH - 1
    /\ \E k \in 1..Len(placements) : placements[k].found

----------------------------------------------------------------------------
(* Properties of the image acquisition *)

\* draw_graph has returned
Finalized == pc = "done"

\* the canvas is serialized only after the sticker loop is through with
\* every selected sticker
SerializedAfterAcquisitions ==
    Finalized /\ output.raster => Len(placements) = Len(stickers_to_place)

\* C30: a render always reaches canvas finalization: every image acquisition
\* completes or is given up as a skipped annotation after a bounded wait, so
\* a remote fetch that never responds cannot block the render forever, and
\* the canvas is serialized only after every acquisition has completed or
\* been skipped.
C30_RenderReachesFinalization ==
    /\ <>Finalized
    /\ []SerializedAfterAcquisitions

\* the render is waiting for the image of a remote sticker
AwaitingFetch ==
    /\ pc = "acquiring"
    /\ stickers_to_place[place_idx + 1].sticker.id \in RemoteImages

====
